---- MODULE Spec2Model ----
(***************************************************************************)
(* A model of the update engine's preference store (common/prefs.cc):     *)
(* PrefsBase on top of the file-backed storage (Prefs::FileStorage) and   *)
(* the in-memory storage (MemoryPrefs::MemoryStorage), with observers,    *)
(* transactions on the file store, and process crashes followed by Init.  *)
(*                                                                         *)
(* Keys, values and paths are sequences of one-character strings, so that  *)
(* prefix tests, separators and character classes are computed as the      *)
(* code computes them.                                                     *)
(***************************************************************************)
EXTENDS Integers, Sequences, FiniteSets, TLC

\* ------------------------------------------------------------------ bounds

\* API calls (and crashes) performed in one behaviour of Spec, of SpecTxn, of
\* SpecObs and of SpecDel.
MaxOps == 2
MaxTxnOps == 4
MaxObsOps == 3
MaxTxnObsOps == 4
MaxDelOps == 3
MaxTypedOps == 2
MaxPairOps == 2
\* Partitions added to one PayloadFile.
MaxPartitions == 2
\* The width of int64_t in the model: the values run from -2^(Int64Bits-1) to
\* 2^(Int64Bits-1) - 1.
Int64Bits == 16
\* Longest observer list kept for one key.
MaxObservers == 2

\* -------------------------------------------------------------- characters

kKeySeparator == "/"

\* '\0', the terminator std::string keeps at data()[size()].
NUL == "NUL"

\* The (ASCII) code of the characters the model uses.
CharCode(c) ==
  CASE c = NUL -> 0
    [] c = "-" -> 45
    [] c = "." -> 46
    [] c = "/" -> 47
    [] c = "0" -> 48
    [] c = "1" -> 49
    [] c = "2" -> 50
    [] c = "3" -> 51
    [] c = "4" -> 52
    [] c = "5" -> 53
    [] c = "6" -> 54
    [] c = "7" -> 55
    [] c = "8" -> 56
    [] c = "9" -> 57
    [] c = "_" -> 95
    [] c = "a" -> 97
    [] c = "b" -> 98
    [] c = "d" -> 100
    [] c = "e" -> 101
    [] c = "f" -> 102
    [] c = "k" -> 107
    [] c = "l" -> 108
    [] c = "m" -> 109
    [] c = "p" -> 112
    [] c = "r" -> 114
    [] c = "s" -> 115
    [] c = "t" -> 116
    [] c = "u" -> 117
    [] c = "x" -> 120
    [] c = "y" -> 121

isalpha(c) == CharCode(c) \in (65..90) \cup (97..122)

isdigit(c) == CharCode(c) \in 48..57

\* ---------------------------------------------------------------- strings

IsPrefix(p, s) == Len(p) <= Len(s) /\ SubSeq(s, 1, Len(p)) = p

\* std::string::find_last_of(c): the last position of c in s, 0 for npos.
FindLastOf(s, c) ==
  LET hits == {i \in 1..Len(s) : s[i] = c}
  IN  IF hits = {} THEN 0 ELSE CHOOSE i \in hits : \A j \in hits : j <= i

\* operator< of std::string / std::string_view: lexicographic on char codes.
RECURSIVE StrLess(_, _)
StrLess(s, t) ==
  IF t = <<>> THEN FALSE
  ELSE IF s = <<>> THEN TRUE
  ELSE IF s[1] # t[1] THEN CharCode(s[1]) < CharCode(t[1])
  ELSE StrLess(Tail(s), Tail(t))

\* The keys of S in the order std::map<std::string, ..., std::less<>> keeps.
RECURSIVE SortedSeq(_)
SortedSeq(S) ==
  IF S = {} THEN <<>>
  ELSE LET m == CHOOSE x \in S : \A y \in S \ {x} : StrLess(x, y)
       IN  <<m>> \o SortedSeq(S \ {m})

Range(s) == {s[i] : i \in 1..Len(s)}

\* std::format("{}", n) for an int64: the decimal text of n.
DigitChar(d) ==
  CASE d = 0 -> "0" [] d = 1 -> "1" [] d = 2 -> "2" [] d = 3 -> "3"
    [] d = 4 -> "4" [] d = 5 -> "5" [] d = 6 -> "6" [] d = 7 -> "7"
    [] d = 8 -> "8" [] d = 9 -> "9"

RECURSIVE NatToDecimal(_)
NatToDecimal(n) ==
  IF n < 10 THEN <<DigitChar(n)>>
  ELSE NatToDecimal(n \div 10) \o <<DigitChar(n % 10)>>

\* A formatter that drops the sign.
FormatInt64_NoSign(n) == IF n < 0 THEN NatToDecimal(-n) ELSE NatToDecimal(n)

FormatInt64(n) == IF n < 0 THEN <<"-">> \o NatToDecimal(-n) ELSE NatToDecimal(n)

Int64Min == -(2 ^ (Int64Bits - 1))

Int64Max == 2 ^ (Int64Bits - 1) - 1

\* android::base::Trim: the text without its leading and trailing whitespace.
RECURSIVE TrimLeft(_)
TrimLeft(s) ==
  IF s # <<>> /\ Head(s) \in {" ", "\n", "\t", "\r"} THEN TrimLeft(Tail(s)) ELSE s

RECURSIVE TrimRight(_)
TrimRight(s) ==
  IF s # <<>> /\ s[Len(s)] \in {" ", "\n", "\t", "\r"}
  THEN TrimRight(SubSeq(s, 1, Len(s) - 1))
  ELSE s

Trim(s) == TrimRight(TrimLeft(s))

\* The value of a digit character.
DigitValue(c) == CharCode(c) - CharCode("0")

\* The number a sequence of decimal digits denotes.
RECURSIVE DecimalToNat(_)
DecimalToNat(s) ==
  IF s = <<>> THEN 0
  ELSE 10 * DecimalToNat(SubSeq(s, 1, Len(s) - 1)) + DigitValue(s[Len(s)])

\* android::base::ParseInt<int64_t> on a decimal text: an optional sign and
\* at least one digit, nothing else, and a value in the range of int64_t.
ParseInt(s) ==
  LET signed == s # <<>> /\ Head(s) \in {"-", "+"}
      digits == IF signed THEN Tail(s) ELSE s
      wellformed == digits # <<>> /\ \A i \in 1..Len(digits) : isdigit(digits[i])
      magnitude == IF wellformed THEN DecimalToNat(digits) ELSE 0
      value == IF signed /\ Head(s) = "-" THEN -magnitude ELSE magnitude
  IN  IF wellformed /\ Int64Min <= value /\ value <= Int64Max
      THEN [ok |-> TRUE, v |-> value]
      ELSE [ok |-> FALSE, v |-> 0]

FormatBoolean(b) == IF b THEN <<"t", "r", "u", "e">> ELSE <<"f", "a", "l", "s", "e">>

\* ------------------------------------------------------- keys and values

Key_k == <<"k">>
Key_a == <<"a">>
Key_a_k == <<"a", "/", "k">>
Key_ab_k == <<"a", "b", "/", "k">>
Key_a_b_k == <<"a", "/", "b", "/", "k">>
Key_empty == <<>>
Key_bad == <<"k", ".">>

ValidKeys == {Key_k, Key_a, Key_a_k, Key_ab_k, Key_a_b_k}
BadKeys == {Key_empty, Key_bad}
Keys == ValidKeys \cup BadKeys

\* Namespaces handed to GetSubKeys and Delete(key, nss).
Ns_a == <<"a">>
Ns_a_slash == <<"a", "/">>
Ns_a_slash_b == <<"a", "/", "b">>
Namespaces == {Ns_a, Ns_a_slash, Ns_a_slash_b}

\* The result of a read that returns false.
Absent == <<"ABSENT">>

\* The argument of one typed setter: SetString(str), SetInt64(int) or
\* SetBoolean(bool); the fields of the other two setters are not used.
StringValue(s) == [type |-> "string", str |-> s, int |-> 0, bool |-> FALSE]

Int64Value(n) == [type |-> "int64", str |-> <<>>, int |-> n, bool |-> FALSE]

BoolValue(b) == [type |-> "bool", str |-> <<>>, int |-> 0, bool |-> b]

\* The typed values the setters are called with.
TypedValues ==
  {StringValue(<<"x">>),
   StringValue(<<"y">>),
   Int64Value(-3),
   BoolValue(TRUE)}

\* The text a typed setter hands to SetString.
TextOf(tv) ==
  CASE tv.type = "string" -> tv.str
    [] tv.type = "int64" -> FormatInt64(tv.int)
    [] tv.type = "bool" -> FormatBoolean(tv.bool)

NoValues == [k \in Keys |-> Absent]

\* ------------------------------------------------------------ file system
\* A directory tree: whether the directory exists, its regular files (by
\* path relative to it) and its sub-directories (by relative path).

NoDir == [exists |-> FALSE, files |-> NoValues, dirs |-> {}]

EmptyDir == [exists |-> TRUE, files |-> NoValues, dirs |-> {}]

IsFile(T, p) == T.exists /\ p \in Keys /\ T.files[p] # Absent

IsDir(T, p) == T.exists /\ (p = <<>> \/ p \in T.dirs)

\* base::FilePath::DirName of a relative path (<<>> is the directory itself).
DirName(p) ==
  LET i == FindLastOf(p, kKeySeparator)
  IN  IF i = 0 THEN <<>> ELSE SubSeq(p, 1, i - 1)

\* The directories above p, nearest last, without the tree's own directory.
DirsAbove(p) == {SubSeq(p, 1, i - 1) : i \in {j \in 1..Len(p) : p[j] = kKeySeparator}}

FilesOf(T) == {p \in Keys : IsFile(T, p)}

\* base::CreateDirectory(d): creates d and its missing parents; fails when a
\* path component is a regular file.
CreateDirectory(T, d) ==
  LET need == IF d = <<>> THEN {} ELSE DirsAbove(d) \cup {d}
  IN  IF \E q \in need : IsFile(T, q)
      THEN [ok |-> FALSE, tree |-> T]
      ELSE [ok |-> TRUE,
            tree |-> [exists |-> TRUE,
                      files |-> IF T.exists THEN T.files ELSE NoValues,
                      dirs |-> (IF T.exists THEN T.dirs ELSE {}) \cup need]]

\* DeleteEmptyDirectories: bottom-up, every directory with no file below it
\* is removed.
DeleteEmptyDirectories(T) ==
  IF ~T.exists THEN T
  ELSE [T EXCEPT !.dirs =
          {d \in T.dirs : \E f \in FilesOf(T) : IsPrefix(d \o <<kKeySeparator>>, f)}]

\* The tree a store content is laid out as: one file per key, with the
\* directories above it.
TreeOf(content) ==
  [exists |-> TRUE,
   files |-> content,
   dirs |-> UNION {DirsAbove(k) : k \in {q \in Keys : content[q] # Absent}}]

\* ------------------------------------------------- Prefs::FileStorage

\* prefs_dir_, as a path string.
PrefsDir == <<"p">>

GetTemporaryDir == PrefsDir \o <<"_", "t", "m", "p">>

\* base::FilePath::Append: the directory, a separator, the component.
AppendPath(dir, component) == dir \o <<kKeySeparator>> \o component

\* The name GetFileNameForKey produces: whether the key is accepted, the
\* directory the file lives in ("tmp" while <root>_tmp exists) and the path.
GetFileNameForKey_NoRedirect(fsys, key) ==
  IF key = <<>> \/ \E i \in 1..Len(key) :
       ~(isalpha(key[i]) \/ isdigit(key[i]) \/ key[i] = "_" \/ key[i] = "-"
         \/ key[i] = kKeySeparator)
  THEN [ok |-> FALSE, in |-> "root", name |-> <<>>]
  ELSE [ok |-> TRUE, in |-> "root", name |-> AppendPath(PrefsDir, key)]

GetFileNameForKey(fsys, key) ==
  IF key = <<>> \/ \E i \in 1..Len(key) :
       ~(isalpha(key[i]) \/ isdigit(key[i]) \/ key[i] = "_" \/ key[i] = "-"
         \/ key[i] = kKeySeparator)
  THEN [ok |-> FALSE, in |-> "root", name |-> <<>>]
  ELSE IF fsys.tmp.exists
       THEN [ok |-> TRUE, in |-> "tmp", name |-> AppendPath(GetTemporaryDir, key)]
       ELSE [ok |-> TRUE, in |-> "root", name |-> AppendPath(PrefsDir, key)]

\* GetKey: the file's content, Absent when the call returns false.
FileGetKey(fsys, key) ==
  LET f == GetFileNameForKey(fsys, key)
  IN  IF f.ok /\ IsFile(fsys[f.in], key) THEN fsys[f.in].files[key] ELSE Absent

\* KeyExists: base::PathExists, true for a file and for a directory.
FileKeyExists(fsys, key) ==
  LET f == GetFileNameForKey(fsys, key)
  IN  f.ok /\ (IsFile(fsys[f.in], key) \/ IsDir(fsys[f.in], key))

\* SetKey: create the directory when missing, then write the file; fault is
\* an I/O failure of the write.
FileSetKey(fsys, key, value, fault) ==
  LET f == GetFileNameForKey(fsys, key)
  IN  IF ~f.ok THEN [ok |-> FALSE, fs |-> fsys]
      ELSE LET T == fsys[f.in]
               d == DirName(key)
               mk == IF IsDir(T, d) THEN [ok |-> TRUE, tree |-> T]
                     ELSE CreateDirectory(T, d)
           IN  IF ~mk.ok THEN [ok |-> FALSE, fs |-> fsys]
               ELSE IF fault \/ IsDir(mk.tree, key)
                    THEN [ok |-> FALSE, fs |-> [fsys EXCEPT ![f.in] = mk.tree]]
                    ELSE [ok |-> TRUE,
                          fs |-> [fsys EXCEPT ![f.in] =
                                    [mk.tree EXCEPT !.files[key] = value]]]

\* DeleteKey: base::DeleteFile, not recursive: true for a missing path,
\* unlink for a file, rmdir for a directory (which fails unless it is empty).
FileDeleteKey(fsys, key, fault) ==
  LET f == GetFileNameForKey(fsys, key)
  IN  IF ~f.ok THEN [ok |-> FALSE, fs |-> fsys]
      ELSE LET T == fsys[f.in]
           IN  IF IsFile(T, key)
               THEN IF fault THEN [ok |-> FALSE, fs |-> fsys]
                    ELSE [ok |-> TRUE,
                          fs |-> [fsys EXCEPT ![f.in] =
                                    [T EXCEPT !.files[key] = Absent]]]
               ELSE IF IsDir(T, key)
               THEN IF fault \/ \E q \in FilesOf(T) \cup T.dirs :
                                  IsPrefix(key \o <<kKeySeparator>>, q)
                    THEN [ok |-> FALSE, fs |-> fsys]
                    ELSE [ok |-> TRUE,
                          fs |-> [fsys EXCEPT ![f.in] =
                                    [T EXCEPT !.dirs = T.dirs \ {key}]]]
               ELSE [ok |-> TRUE, fs |-> fsys]

\* GetSubKeys: the name comes from GetFileNameForKey, the files enumerated
\* are those below prefs_dir_; a file is kept when its path starts with the
\* name, and returned without the leading "<prefs_dir_>/".
FileGetSubKeys(fsys, ns) ==
  LET f == GetFileNameForKey(fsys, ns)
  IN  IF ~f.ok THEN [ok |-> FALSE, keys |-> <<>>]
      ELSE [ok |-> TRUE,
            keys |-> SortedSeq({k \in FilesOf(fsys.root) :
                                  IsPrefix(f.name, AppendPath(PrefsDir, k))})]

\* ------------------------------------------- MemoryPrefs::MemoryStorage

MemGetKey(mem, key) == mem[key]

MemKeyExists(mem, key) == mem[key] # Absent

MemSetKey(mem, key, value) == [mem EXCEPT ![key] = value]

MemDeleteKey(mem, key) == [mem EXCEPT ![key] = Absent]

\* What a read behind the terminator of a key's buffer finds: the bytes there
\* are not defined by the program, any character may be in them.
VARIABLE slack

SlackChars == {NUL, "b", "z"}

RECURSIVE BehindTerminator(_)
BehindTerminator(m) == IF m <= 0 THEN <<>> ELSE <<slack>> \o BehindTerminator(m - 1)

\* std::string_view{pr.first.data(), ns.length()}: the first n characters of
\* the key's buffer: the key, the terminator the string keeps at
\* data()[size()], and whatever lies behind it.
DataView(key, n) ==
  IF n <= Len(key) THEN SubSeq(key, 1, n)
  ELSE key \o <<NUL>> \o BehindTerminator(n - Len(key) - 1)

lower_comp(key, ns) == StrLess(DataView(key, Len(ns)), ns)

upper_comp(ns, key) == StrLess(ns, DataView(key, Len(ns)))

\* std::lower_bound over s[first .. first+count-1]: binary search.
RECURSIVE LowerBound(_, _, _, _)
LowerBound(s, first, count, ns) ==
  IF count <= 0 THEN first
  ELSE LET step == count \div 2
           it == first + step
       IN  IF lower_comp(s[it], ns)
           THEN LowerBound(s, it + 1, count - (step + 1), ns)
           ELSE LowerBound(s, first, step, ns)

\* std::upper_bound over s[first .. first+count-1].
RECURSIVE UpperBound(_, _, _, _)
UpperBound(s, first, count, ns) ==
  IF count <= 0 THEN first
  ELSE LET step == count \div 2
           it == first + step
       IN  IF ~upper_comp(ns, s[it])
           THEN UpperBound(s, it + 1, count - (step + 1), ns)
           ELSE UpperBound(s, first, step, ns)

MemGetSubKeys(mem, ns) ==
  LET s == SortedSeq({k \in Keys : mem[k] # Absent})
      lower_it == LowerBound(s, 1, Len(s), ns)
      upper_it == UpperBound(s, lower_it, Len(s) + 1 - lower_it, ns)
  IN  [ok |-> TRUE, keys |-> SubSeq(s, lower_it, upper_it - 1)]

\* ------------------------------------------------ storage_ (the variant)

StorageGetKey(b, fsys, mem, key) ==
  IF b = "file" THEN FileGetKey(fsys, key) ELSE MemGetKey(mem, key)

StorageKeyExists(b, fsys, mem, key) ==
  IF b = "file" THEN FileKeyExists(fsys, key) ELSE MemKeyExists(mem, key)

\* Which typed getter reads a stored text back: GetBoolean accepts "true" and
\* "false", GetInt64 a decimal integer, GetString anything.  The texts the
\* setters of this model write are read back by the getter of their own type.
TypeOfText(text) ==
  IF text \in {FormatBoolean(TRUE), FormatBoolean(FALSE)} THEN "bool"
  ELSE LET digits == IF text # <<>> /\ Head(text) = "-" THEN Tail(text) ELSE text
       IN  IF digits # <<>> /\ \A i \in 1..Len(digits) : isdigit(digits[i])
           THEN "int64"
           ELSE "string"

\* A store that pins the type of a key: a set whose text has another type
\* than the stored text fails and writes nothing.
StorageSetKey_TypePinned(b, fsys, mem, key, value, fault) ==
  LET stored == IF b = "file" THEN FileGetKey(fsys, key) ELSE MemGetKey(mem, key)
  IN  IF stored # Absent /\ TypeOfText(stored) # TypeOfText(value)
      THEN [ok |-> FALSE, fs |-> fsys, mem |-> mem]
      ELSE IF b = "file"
      THEN LET r == FileSetKey(fsys, key, value, fault)
           IN  [ok |-> r.ok, fs |-> r.fs, mem |-> mem]
      ELSE [ok |-> TRUE, fs |-> fsys, mem |-> MemSetKey(mem, key, value)]

StorageSetKey(b, fsys, mem, key, value, fault) ==
  IF b = "file"
  THEN LET r == FileSetKey(fsys, key, value, fault)
       IN  [ok |-> r.ok, fs |-> r.fs, mem |-> mem]
  ELSE [ok |-> TRUE, fs |-> fsys, mem |-> MemSetKey(mem, key, value)]

StorageDeleteKey(b, fsys, mem, key, fault) ==
  IF b = "file"
  THEN LET r == FileDeleteKey(fsys, key, fault)
       IN  [ok |-> r.ok, fs |-> r.fs, mem |-> mem]
  ELSE [ok |-> TRUE, fs |-> fsys, mem |-> MemDeleteKey(mem, key)]

StorageGetSubKeys(b, fsys, mem, ns) ==
  IF b = "file" THEN FileGetSubKeys(fsys, ns) ELSE MemGetSubKeys(mem, ns)

\* The key/value content GetString shows, key by key.
Content(b, fsys, mem) == [k \in Keys |-> StorageGetKey(b, fsys, mem, k)]

\* The content of one directory tree.
TreeContent(T) == [k \in Keys |-> IF IsFile(T, k) THEN T.files[k] ELSE Absent]

\* ------------------------------------------------------------- the state

VARIABLES
  backend,         \* "file" (Prefs) or "memory" (MemoryPrefs)
  fs,              \* the directories <root> and <root>_tmp, on disk
  values_,         \* MemoryStorage::values_
  observers_,      \* PrefsBase::observers_: key -> list of observers
  pc,              \* where the process is: idle, inside a call, or crashed
  copy_observers,  \* the copy of the observer list a notification runs over
  notified,        \* the observer callbacks invoked by the current call
  copyTodo,        \* files std::filesystem::copy has yet to copy
  call,            \* the call in progress or last returned, with its result
  txn,             \* history: the transaction's pre-begin and expected content
  ops,             \* calls (and crashes) left in this behaviour
  payload,         \* a PayloadFile, its input blob file and the file it writes
  dpc,             \* a DynamicPartitionControlAndroid and the super partition
  optimize,        \* a call of OptimizeOperation and the device it runs on
  subprocess,      \* a Subprocess, its child processes and their pipes
  verity           \* a verity writer and a call of Finalize on it

vars == <<backend, slack, payload, dpc, optimize, subprocess, verity, fs, values_, observers_, pc, copy_observers, notified,
          copyTodo, call, txn, ops>>

Observers == {"o1", "o2"}

\* Keys that observers register for.
ObservedKeys == {Key_k, Key_a_k, Key_empty}

NoObservers == [k \in Keys |-> <<>>]

NoCall ==
  [op |-> "none", key |-> <<>>, type |-> "none", text |-> Absent,
   ret |-> "none", old |-> Absent, reg |-> <<>>, out |-> <<>>,
   pre |-> NoValues, tmpPre |-> NoValues, from |-> "none", fault |-> FALSE,
   inTxn |-> FALSE, hadRoot |-> FALSE, hadTmp |-> FALSE,
   val |-> 0, flag |-> FALSE, setType |-> "none", setVal |-> 0, setFlag |-> FALSE,
   memRet |-> "none", memText |-> Absent, memOut |-> <<>>]

NoTxn ==
  [phase |-> "none", pre |-> NoValues, exp |-> NoValues, written |-> {},
   restarted |-> FALSE, announced |-> {}]

BoolText(b) == IF b THEN "true" ELSE "false"

\* Store contents left by earlier use.
InitialContents ==
  {NoValues,
   [k \in Keys |-> IF k \in {Key_k, Key_a_k, Key_ab_k, Key_a_b_k} THEN <<"x">> ELSE Absent],
   [k \in Keys |-> IF k \in {Key_k, Key_a} THEN <<"x">> ELSE Absent]}

\* No PayloadFile in use.
NoPayload ==
  [pc |-> "off", major_version_ |-> 0, part_vec_ |-> <<>>, data_blobs |-> <<>>,
   next_id |-> 0, signed |-> FALSE, ordered_blobs |-> <<>>,
   manifest_ |-> [partitions |-> <<>>, has_signatures |-> FALSE,
                  signatures_offset |-> 0, signatures_size |-> 0],
   serialized_manifest |-> <<>>, metadata_size |-> 0, file |-> <<>>,
   metadata_signature |-> <<>>, signature |-> <<>>,
   manifest_at |-> 0, metadata_signature_at |-> 0, blobs_at |-> 0,
   signature_at |-> 0, metadata_size_out |-> 0, ret |-> "none",
   static_call |-> FALSE, read_unset |-> FALSE, reported |-> 0]

\* Sizes are counted in MiB.
GiB == 1024

\* The groups and partitions of the builds, without slot suffix, and the
\* slots (suffixes _a and _b).
GroupNames == {"android", "oem", "group"}

PartitionNames == {"system", "vendor"}

Slots == {0, 1}

\* No group of this name: in place of a maximum size.
NoGroup == -1

\* No partition of this name.
NoPartition == [group |-> "none", size |-> 0]

\* Super partition metadata (a MetadataBuilder): the maximum size of every
\* group and the group and size of every partition, per slot suffix.
EmptyMetadata ==
  [groups |-> [k \in GroupNames \X Slots |-> NoGroup],
   parts |-> [k \in PartitionNames \X Slots |-> NoPartition]]

\* The dynamic partition metadata of an update manifest: names without suffix.
EmptyManifest ==
  [groups |-> [g \in GroupNames |-> NoGroup],
   parts |-> [p \in PartitionNames |-> NoPartition]]

\* No DynamicPartitionControlAndroid in use.
NoDpc ==
  [pc |-> "off", source |-> 0, target |-> 0, virtual_ab |-> FALSE,
   recovery |-> FALSE, super_size |-> 0, metadata |-> EmptyMetadata,
   op |-> "none", update |-> EmptyManifest, snapshots |-> "none",
   builder |-> EmptyMetadata, ret |-> "none", required_size |-> 0,
   stored |-> FALSE, stored_metadata |-> EmptyMetadata,
   corrupt |-> FALSE, delete_source |-> FALSE, calls |-> <<>>, unmapped |-> {}]

\* No OptimizeOperation call, no Subprocess, no verity writer in use.
NoOptimize == [pc |-> "off"]

NoSubprocess == [pc |-> "off"]

NoVerity == [pc |-> "off"]

InitWith(backends, contents, budget) ==
  /\ backend \in backends
  /\ payload = NoPayload
  /\ dpc = NoDpc
  /\ optimize = NoOptimize
  /\ subprocess = NoSubprocess
  /\ verity = NoVerity
  /\ slack \in (IF backend = "memory" THEN SlackChars ELSE {NUL})
  /\ \E c \in contents :
       /\ fs = IF backend = "file" THEN [root |-> TreeOf(c), tmp |-> NoDir]
                                   ELSE [root |-> NoDir, tmp |-> NoDir]
       /\ values_ = IF backend = "memory" THEN c ELSE NoValues
  /\ observers_ = NoObservers
  /\ pc = "idle"
  /\ copy_observers = <<>>
  /\ notified = <<>>
  /\ copyTodo = {}
  /\ call = NoCall
  /\ txn = NoTxn
  /\ ops = budget

Init == InitWith({"file", "memory"}, InitialContents, MaxOps)

\* -------------------------------------------------------------- PrefsBase

\* The list the notification loop of SetString / Delete iterates over:
\* copy_observers, the copy taken before the first callback.
ObserversToNotify_Live(copy, live) == live

ObserversToNotify(copy, live) == copy

\* Whether SetString / Delete go on to notify after the storage call.
NotifyAfter_Always(storage_ok) == TRUE

NotifyAfter(storage_ok) == storage_ok

\* SetString, and SetInt64 / SetBoolean through it.
SetValue(key, tv, fault) ==
  /\ pc = "idle"
  /\ ops > 0
  /\ LET text == TextOf(tv)
         r == StorageSetKey(backend, fs, values_, key, text, fault)
         c == [NoCall EXCEPT !.op = "set", !.key = key, !.type = tv.type,
                             !.text = text, !.reg = observers_[key],
                             !.fault = fault, !.inTxn = fs.tmp.exists,
                             !.old = StorageGetKey(backend, fs, values_, key),
                             !.val = tv.int,
                             !.flag = tv.bool]
     IN  /\ fs' = r.fs
         /\ values_' = r.mem
         /\ notified' = <<>>
         /\ IF NotifyAfter(r.ok) /\ observers_[key] # <<>>
            THEN /\ pc' = "notify"
                 /\ copy_observers' = observers_[key]
                 /\ call' = [c EXCEPT !.ret = "pending"]
            ELSE /\ pc' = "idle"
                 /\ copy_observers' = <<>>
                 /\ call' = [c EXCEPT !.ret = BoolText(r.ok)]
         /\ txn' = IF r.ok /\ txn.phase = "open"
                   THEN [txn EXCEPT !.exp[key] = text, !.written = @ \cup {key}]
                   ELSE txn
  /\ ops' = ops - 1
  /\ UNCHANGED <<backend, slack, payload, dpc, optimize, subprocess, verity, observers_, copyTodo>>

\* Delete(key).
Delete(key, fault) ==
  /\ pc = "idle"
  /\ ops > 0
  /\ LET r == StorageDeleteKey(backend, fs, values_, key, fault)
         c == [NoCall EXCEPT !.op = "delete", !.key = key,
                             !.reg = observers_[key],
                             !.fault = fault, !.inTxn = fs.tmp.exists,
                             !.old = StorageGetKey(backend, fs, values_, key)]
     IN  /\ fs' = r.fs
         /\ values_' = r.mem
         /\ notified' = <<>>
         /\ IF NotifyAfter(r.ok) /\ observers_[key] # <<>>
            THEN /\ pc' = "notify"
                 /\ copy_observers' = observers_[key]
                 /\ call' = [c EXCEPT !.ret = "pending"]
            ELSE /\ pc' = "idle"
                 /\ copy_observers' = <<>>
                 /\ call' = [c EXCEPT !.ret = BoolText(r.ok)]
         /\ txn' = IF r.ok /\ txn.phase = "open"
                   THEN [txn EXCEPT !.exp[key] = Absent, !.written = @ \cup {key}]
                   ELSE txn
  /\ ops' = ops - 1
  /\ UNCHANGED <<backend, slack, payload, dpc, optimize, subprocess, verity, observers_, copyTodo>>

\* AddObserver: push_back on the key's list.
AddObserverTo(obs, key, o) == [obs EXCEPT ![key] = Append(@, o)]

\* RemoveObserver: erase the first occurrence, if any.
RemoveObserverFrom(obs, key, o) ==
  LET l == obs[key]
      hits == {i \in 1..Len(l) : l[i] = o}
  IN  IF hits = {} THEN obs
      ELSE LET i == CHOOSE h \in hits : \A g \in hits : h <= g
           IN  [obs EXCEPT ![key] = SubSeq(l, 1, i - 1) \o SubSeq(l, i + 1, Len(l))]

\* What one observer callback does to the observer list of the key it is
\* notified about: nothing, AddObserver or RemoveObserver.
CallbackEffects ==
  {[do |-> "nothing", o |-> "o1"]}
    \cup {[do |-> d, o |-> o] : d \in {"add", "remove"}, o \in Observers}

ApplyCallback(obs, key, cb) ==
  CASE cb.do = "nothing" -> obs
    [] cb.do = "add" -> AddObserverTo(obs, key, cb.o)
    [] cb.do = "remove" -> RemoveObserverFrom(obs, key, cb.o)

\* One turn of the notification loop: the next observer's OnPrefSet /
\* OnPrefDeleted runs, and may change the observers of the key.
Notify ==
  /\ pc = "notify"
  /\ LET lst == ObserversToNotify(copy_observers, observers_[call.key])
         i == Len(notified) + 1
     IN  /\ i <= Len(lst)
         /\ notified' = Append(notified, [obs |-> lst[i], key |-> call.key, ev |-> call.op])
         /\ \E cb \in CallbackEffects :
              /\ cb.do = "add" => Len(observers_[call.key]) < MaxObservers
              /\ observers_' = ApplyCallback(observers_, call.key, cb)
  /\ txn' = IF txn.phase = "open"
            THEN [txn EXCEPT !.announced = @ \cup {call.key}]
            ELSE txn
  /\ UNCHANGED <<backend, slack, payload, dpc, optimize, subprocess, verity, fs, values_, pc, copy_observers, copyTodo, call, ops>>

\* The loop is over: the call returns true.
NotifyDone ==
  /\ pc = "notify"
  /\ Len(notified) >= Len(ObserversToNotify(copy_observers, observers_[call.key]))
  /\ pc' = "idle"
  /\ call' = [call EXCEPT !.ret = "true"]
  /\ copy_observers' = <<>>
  /\ UNCHANGED <<backend, slack, payload, dpc, optimize, subprocess, verity, fs, values_, observers_, notified, copyTodo, txn, ops>>

AddObserver(key, o) ==
  /\ pc = "idle"
  /\ ops > 0
  /\ Len(observers_[key]) < MaxObservers
  /\ observers_' = AddObserverTo(observers_, key, o)
  /\ call' = [NoCall EXCEPT !.op = "add_observer", !.key = key, !.ret = "true"]
  /\ notified' = <<>>
  /\ ops' = ops - 1
  /\ UNCHANGED <<backend, slack, payload, dpc, optimize, subprocess, verity, fs, values_, pc, copy_observers, copyTodo, txn>>

RemoveObserver(key, o) ==
  /\ pc = "idle"
  /\ ops > 0
  /\ observers_' = RemoveObserverFrom(observers_, key, o)
  /\ call' = [NoCall EXCEPT !.op = "remove_observer", !.key = key, !.ret = "true"]
  /\ notified' = <<>>
  /\ ops' = ops - 1
  /\ UNCHANGED <<backend, slack, payload, dpc, optimize, subprocess, verity, fs, values_, pc, copy_observers, copyTodo, txn>>

\* The notifications of one Delete(key) that succeeded: one OnPrefDeleted
\* per observer of the key, in list order.
RECURSIVE DeletedCallbacks(_, _)
DeletedCallbacks(lst, key) ==
  IF lst = <<>> THEN <<>>
  ELSE <<[obs |-> Head(lst), key |-> key, ev |-> "delete"]>>
         \o DeletedCallbacks(Tail(lst), key)

\* Delete(key) inside Delete(pref_key, nss): st carries the storage, the
\* running success flag, the callbacks made and the keys deleted so far.
DeleteOne(b, st, key, obs) ==
  LET r == StorageDeleteKey(b, st.fs, st.mem, key, FALSE)
  IN  [fs |-> r.fs,
       mem |-> r.mem,
       success |-> r.ok /\ st.success,
       notified |-> IF r.ok THEN st.notified \o DeletedCallbacks(obs[key], key)
                            ELSE st.notified,
       deleted |-> IF r.ok THEN st.deleted \cup {key} ELSE st.deleted]

\* The inner loop with find_first_of in place of find_last_of: only the
\* sub-keys "<one segment>/pref_key" are deleted.
RECURSIVE DeleteMatching_FirstSeparator(_, _, _, _, _)
DeleteMatching_FirstSeparator(b, st, keys, pref_key, obs) ==
  IF keys = <<>> THEN st
  ELSE LET key == Head(keys)
           hits == {i \in 1..Len(key) : key[i] = kKeySeparator}
           first_key_seperator ==
             IF hits = {} THEN 0 ELSE CHOOSE i \in hits : \A j \in hits : i <= j
           st1 == IF /\ first_key_seperator # 0
                     /\ pref_key = SubSeq(key, first_key_seperator + 1, Len(key))
                  THEN DeleteOne(b, st, key, obs)
                  ELSE st
       IN  DeleteMatching_FirstSeparator(b, st1, Tail(keys), pref_key, obs)

\* The inner loop: Delete every sub-key whose text after the last separator
\* is pref_key.
RECURSIVE DeleteMatching(_, _, _, _, _)
DeleteMatching(b, st, keys, pref_key, obs) ==
  IF keys = <<>> THEN st
  ELSE LET key == Head(keys)
           last_key_seperator == FindLastOf(key, kKeySeparator)
           st1 == IF /\ last_key_seperator # 0
                     /\ pref_key = SubSeq(key, last_key_seperator + 1, Len(key))
                  THEN DeleteOne(b, st, key, obs)
                  ELSE st
       IN  DeleteMatching(b, st1, Tail(keys), pref_key, obs)

\* The outer loop over the namespaces.
RECURSIVE DeleteInNamespaces(_, _, _, _, _)
DeleteInNamespaces(b, st, nss, pref_key, obs) ==
  IF nss = <<>> THEN st
  ELSE LET g == StorageGetSubKeys(b, st.fs, st.mem, Head(nss))
           st1 == [st EXCEPT !.success = g.ok /\ st.success]
       IN  DeleteInNamespaces(b, DeleteMatching(b, st1, g.keys, pref_key, obs),
                              Tail(nss), pref_key, obs)

\* Delete(pref_key, nss), whole.
DeleteWithNamespaces(b, fsys, mem, pref_key, nss, obs) ==
  LET st0 == [fs |-> fsys, mem |-> mem, success |-> TRUE, notified |-> <<>>,
              deleted |-> {}]
  IN  DeleteInNamespaces(b, DeleteOne(b, st0, pref_key, obs), nss, pref_key, obs)

\* The namespace lists Delete(key, nss) is called with.
NamespaceLists == {<<Ns_a>>, <<Ns_a_slash>>, <<Ns_a_slash, Ns_a>>}

DeleteNs(pref_key, nss) ==
  /\ pc = "idle"
  /\ ops > 0
  /\ LET r == DeleteWithNamespaces(backend, fs, values_, pref_key, nss, observers_)
     IN  /\ fs' = r.fs
         /\ values_' = r.mem
         /\ notified' = r.notified
         /\ call' = [NoCall EXCEPT !.op = "delete_ns", !.key = pref_key,
                                   !.out = nss, !.ret = BoolText(r.success),
                                   !.inTxn = fs.tmp.exists,
                                   !.pre = Content(backend, fs, values_)]
         /\ txn' = IF txn.phase = "open"
                   THEN [txn EXCEPT !.exp = [k \in Keys |->
                           IF k \in r.deleted THEN Absent ELSE txn.exp[k]],
                                    !.written = @ \cup r.deleted]
                   ELSE txn
  /\ ops' = ops - 1
  /\ UNCHANGED <<backend, slack, payload, dpc, optimize, subprocess, verity, observers_, pc, copy_observers, copyTodo>>

\* GetString.
GetString(key) ==
  /\ pc = "idle"
  /\ ops > 0
  /\ LET v == StorageGetKey(backend, fs, values_, key)
     IN  call' = [NoCall EXCEPT !.op = "get", !.key = key, !.text = v,
                                !.ret = BoolText(v # Absent)]
  /\ notified' = <<>>
  /\ ops' = ops - 1
  /\ UNCHANGED <<backend, slack, payload, dpc, optimize, subprocess, verity, fs, values_, observers_, pc, copy_observers, copyTodo, txn>>

\* Exists.
Exists(key) ==
  /\ pc = "idle"
  /\ ops > 0
  /\ call' = [NoCall EXCEPT !.op = "exists", !.key = key,
                            !.ret = BoolText(StorageKeyExists(backend, fs, values_, key))]
  /\ notified' = <<>>
  /\ ops' = ops - 1
  /\ UNCHANGED <<backend, slack, payload, dpc, optimize, subprocess, verity, fs, values_, observers_, pc, copy_observers, copyTodo, txn>>

\* GetSubKeys.
GetSubKeys(ns) ==
  /\ pc = "idle"
  /\ ops > 0
  /\ LET g == StorageGetSubKeys(backend, fs, values_, ns)
     IN  call' = [NoCall EXCEPT !.op = "sub_keys", !.key = ns, !.out = g.keys,
                                !.ret = BoolText(g.ok)]
  /\ notified' = <<>>
  /\ ops' = ops - 1
  /\ UNCHANGED <<backend, slack, payload, dpc, optimize, subprocess, verity, fs, values_, observers_, pc, copy_observers, copyTodo, txn>>

\* The typed set that the call before this one made on the key, if it was
\* one and it succeeded.
SetJustBefore(c, key) ==
  IF call.op = "set" /\ call.key = key /\ call.ret = "true"
  THEN [c EXCEPT !.setType = call.type, !.setVal = call.val, !.setFlag = call.flag]
  ELSE c

\* GetInt64: GetString, Trim, ParseInt.
GetInt64(key) ==
  /\ pc = "idle"
  /\ ops > 0
  /\ LET str_value == StorageGetKey(backend, fs, values_, key)
         trimmed == Trim(str_value)
         parsed == ParseInt(trimmed)
         ok == str_value # Absent /\ trimmed # <<>> /\ parsed.ok
         c == [NoCall EXCEPT !.op = "get_int64", !.key = key, !.text = str_value,
                             !.ret = BoolText(ok),
                             !.val = IF ok THEN parsed.v ELSE 0]
     IN  call' = SetJustBefore(c, key)
  /\ notified' = <<>>
  /\ ops' = ops - 1
  /\ UNCHANGED <<backend, slack, payload, dpc, optimize, subprocess, verity, fs, values_, observers_, pc, copy_observers, copyTodo, txn>>

\* GetBoolean: GetString, Trim, then "false" or "true".
GetBoolean(key) ==
  /\ pc = "idle"
  /\ ops > 0
  /\ LET str_value == StorageGetKey(backend, fs, values_, key)
         trimmed == Trim(str_value)
         ok == str_value # Absent /\ trimmed \in {<<"f", "a", "l", "s", "e">>, <<"t", "r", "u", "e">>}
         c == [NoCall EXCEPT !.op = "get_bool", !.key = key, !.text = str_value,
                             !.ret = BoolText(ok),
                             !.flag = ok /\ trimmed = <<"t", "r", "u", "e">>]
     IN  call' = SetJustBefore(c, key)
  /\ notified' = <<>>
  /\ ops' = ops - 1
  /\ UNCHANGED <<backend, slack, payload, dpc, optimize, subprocess, verity, fs, values_, observers_, pc, copy_observers, copyTodo, txn>>

\* ------------------------------------------- transactions (file store)

\* DeleteTemporaryPrefs: remove_all(<root>_tmp).
DeleteTemporaryPrefs(fsys) == [fsys EXCEPT !.tmp = NoDir]

\* What std::filesystem::copy(source, destination) copies with the default
\* copy_options::none: the files directly in the source directory; the
\* sub-directories are skipped.
CopiedFiles(T) == {f \in FilesOf(T) : DirName(f) = <<>>}

\* StartTransaction -> CreateTemporaryPrefs, up to the creation of the
\* destination directory.
StartTransaction ==
  /\ pc = "idle"
  /\ backend = "file"
  /\ ops > 0
  /\ LET fs1 == DeleteTemporaryPrefs(fs)
         c == [NoCall EXCEPT !.op = "start", !.from = txn.phase]
         pre == TreeContent(fs.root)
     IN  IF ~fs1.root.exists
         THEN /\ fs' = fs1
              /\ pc' = "idle"
              /\ copyTodo' = {}
              /\ call' = [c EXCEPT !.ret = "false"]
              /\ txn' = [phase |-> "none", pre |-> pre, exp |-> pre, written |-> {},
                          restarted |-> FALSE, announced |-> {}]
         ELSE /\ fs' = [fs1 EXCEPT !.tmp = EmptyDir]
              /\ pc' = "copy"
              /\ copyTodo' = CopiedFiles(fs.root)
              /\ call' = [c EXCEPT !.ret = "pending"]
              /\ txn' = [phase |-> "starting", pre |-> pre, exp |-> pre, written |-> {},
                          restarted |-> txn.phase = "open", announced |-> {}]
  /\ notified' = <<>>
  /\ ops' = ops - 1
  /\ UNCHANGED <<backend, slack, payload, dpc, optimize, subprocess, verity, values_, observers_, copy_observers>>

\* The copy, one file at a time, in the order the directory iterator gives.
CopyFile ==
  /\ pc = "copy"
  /\ \E f \in copyTodo :
       /\ fs' = [fs EXCEPT !.tmp.files[f] = fs.root.files[f],
                           !.tmp.dirs = @ \cup DirsAbove(f)]
       /\ copyTodo' = copyTodo \ {f}
  /\ UNCHANGED <<backend, slack, payload, dpc, optimize, subprocess, verity, values_, observers_, pc, copy_observers, notified, call, txn, ops>>

\* The copy is complete: CreateTemporaryPrefs returns true.
CopyDone ==
  /\ pc = "copy"
  /\ copyTodo = {}
  /\ pc' = "idle"
  /\ call' = [call EXCEPT !.ret = "true"]
  /\ txn' = [txn EXCEPT !.phase = "open"]
  /\ UNCHANGED <<backend, slack, payload, dpc, optimize, subprocess, verity, fs, values_, observers_, copy_observers, notified, copyTodo, ops>>

\* CancelTransaction -> DeleteTemporaryPrefs.
CancelTransaction ==
  /\ pc = "idle"
  /\ backend = "file"
  /\ ops > 0
  /\ fs' = DeleteTemporaryPrefs(fs)
  /\ call' = [NoCall EXCEPT !.op = "cancel", !.ret = "true", !.from = txn.phase]
  /\ txn' = [txn EXCEPT !.phase = "none"]
  /\ notified' = <<>>
  /\ ops' = ops - 1
  /\ UNCHANGED <<backend, slack, payload, dpc, optimize, subprocess, verity, values_, observers_, pc, copy_observers, copyTodo>>

\* utils::DeleteDirectory(dir): the directory and everything below it are
\* gone in one step; a missing directory is a success; ok = FALSE is an
\* I/O failure.
DeleteDirectory(T, ok) ==
  IF ~T.exists THEN [ok |-> TRUE, tree |-> T]
  ELSE IF ok THEN [ok |-> TRUE, tree |-> NoDir]
  ELSE [ok |-> FALSE, tree |-> T]

\* SwapPrefs, first statement: DeleteDirectory(<root>).
SwapDelete(fsys, ok) ==
  LET d == DeleteDirectory(fsys.root, ok)
  IN  [ok |-> d.ok, fs |-> [fsys EXCEPT !.root = d.tree]]

\* SwapPrefs, second statement: rename(<root>_tmp, <root>).
SwapRename(fsys) ==
  IF fsys.tmp.exists /\ ~fsys.root.exists
  THEN [ok |-> TRUE, fs |-> [root |-> fsys.tmp, tmp |-> NoDir]]
  ELSE [ok |-> FALSE, fs |-> fsys]

\* SwapPrefs, whole (as Init calls it).
SwapPrefs(fsys, ok) ==
  LET d == SwapDelete(fsys, ok)
  IN  IF ~d.ok THEN d ELSE SwapRename(d.fs)

\* SubmitTransaction -> SwapPrefs, up to the return of DeleteDirectory.
SubmitDelete(ok) ==
  /\ pc = "idle"
  /\ backend = "file"
  /\ ops > 0
  /\ LET d == SwapDelete(fs, ok)
         c == [NoCall EXCEPT !.op = "submit", !.from = txn.phase,
                             !.pre = TreeContent(fs.root)]
     IN  /\ fs' = d.fs
         /\ IF d.ok
            THEN /\ pc' = "swap_rename"
                 /\ call' = [c EXCEPT !.ret = "pending"]
                 /\ txn' = [txn EXCEPT !.phase =
                              IF txn.phase = "open" THEN "submitting" ELSE "none"]
            ELSE /\ pc' = "idle"
                 /\ call' = [c EXCEPT !.ret = "false"]
                 /\ txn' = txn
  /\ notified' = <<>>
  /\ ops' = ops - 1
  /\ UNCHANGED <<backend, slack, payload, dpc, optimize, subprocess, verity, values_, observers_, copy_observers, copyTodo>>

\* The rename of SwapPrefs.
SubmitRename ==
  /\ pc = "swap_rename"
  /\ LET r == SwapRename(fs)
     IN  /\ fs' = r.fs
         /\ IF r.ok
            THEN /\ pc' = "swap_fsync"
                 /\ UNCHANGED <<call, txn>>
            ELSE /\ pc' = "idle"
                 /\ call' = [call EXCEPT !.ret = "false"]
                 /\ txn' = [txn EXCEPT !.phase = "none"]
  /\ UNCHANGED <<backend, slack, payload, dpc, optimize, subprocess, verity, values_, observers_, copy_observers, notified, copyTodo, ops>>

\* The fsync of the parent directory (a failure is only logged), and the
\* return of SwapPrefs.
SubmitFsync ==
  /\ pc = "swap_fsync"
  /\ pc' = "idle"
  /\ call' = [call EXCEPT !.ret = "true"]
  /\ txn' = [txn EXCEPT !.phase = "none"]
  /\ UNCHANGED <<backend, slack, payload, dpc, optimize, subprocess, verity, fs, values_, observers_, copy_observers, notified, copyTodo, ops>>

\* ------------------------------------------------------ crash and Init

\* The process dies: what is in memory is lost, the directories stay.
Crash ==
  /\ pc # "crashed"
  /\ backend = "file"
  /\ ops > 0
  /\ pc' = "crashed"
  /\ observers_' = NoObservers
  /\ copy_observers' = <<>>
  /\ notified' = <<>>
  /\ copyTodo' = {}
  /\ call' = [NoCall EXCEPT !.op = "crash", !.from = txn.phase]
  /\ ops' = ops - 1
  /\ UNCHANGED <<backend, slack, payload, dpc, optimize, subprocess, verity, fs, values_, txn>>

\* FileStorage::Init on the directories a crash left.
InitStorage_KeepRoot(fsys, ok) ==
  IF fsys.tmp.exists
  THEN LET d == DeleteDirectory(fsys.tmp, ok)
       IN  IF ~d.ok THEN [ok |-> FALSE, fs |-> fsys]
           ELSE [ok |-> TRUE,
                 fs |-> [root |-> DeleteEmptyDirectories(fsys.root), tmp |-> d.tree]]
  ELSE [ok |-> TRUE, fs |-> [fsys EXCEPT !.root = DeleteEmptyDirectories(fsys.root)]]

InitStorage_PromoteAlways(fsys, ok) ==
  LET s1 == IF fsys.tmp.exists THEN [root |-> fsys.tmp, tmp |-> NoDir] ELSE fsys
  IN  [ok |-> TRUE, fs |-> [s1 EXCEPT !.root = DeleteEmptyDirectories(s1.root)]]

InitStorage(fsys, ok) ==
  LET s1 == IF ~fsys.root.exists /\ fsys.tmp.exists
            THEN SwapPrefs(fsys, TRUE).fs
            ELSE fsys
  IN  IF s1.tmp.exists
      THEN LET d == DeleteDirectory(s1.tmp, ok)
           IN  IF ~d.ok THEN [ok |-> FALSE, fs |-> s1]
               ELSE [ok |-> TRUE,
                     fs |-> [root |-> DeleteEmptyDirectories(s1.root), tmp |-> d.tree]]
      ELSE [ok |-> TRUE, fs |-> [s1 EXCEPT !.root = DeleteEmptyDirectories(s1.root)]]

\* The restarted process calls Prefs::Init; when it fails the process does
\* not come up and Init is tried again.
InitPrefs(ok) ==
  /\ pc = "crashed"
  /\ LET r == InitStorage(fs, ok)
     IN  /\ fs' = r.fs
         /\ pc' = IF r.ok THEN "idle" ELSE "crashed"
         /\ call' = [NoCall EXCEPT !.op = "init", !.ret = BoolText(r.ok),
                                   !.from = txn.phase,
                                   !.hadRoot = fs.root.exists,
                                   !.hadTmp = fs.tmp.exists,
                                   !.pre = TreeContent(fs.root),
                                   !.tmpPre = TreeContent(fs.tmp)]
         /\ txn' = IF r.ok THEN [txn EXCEPT !.phase = "none"] ELSE txn
  /\ UNCHANGED <<backend, slack, payload, dpc, optimize, subprocess, verity, values_, observers_, copy_observers, notified, copyTodo, ops>>

\* ------------------------------------------------------ specification

Next ==
  \/ \E key \in Keys, tv \in TypedValues, fault \in BOOLEAN :
       (fault => backend = "file") /\ SetValue(key, tv, fault)
  \/ \E key \in Keys, fault \in BOOLEAN :
       (fault => backend = "file") /\ Delete(key, fault)
  \/ \E nss \in NamespaceLists : DeleteNs(Key_k, nss)
  \/ \E key \in Keys : GetString(key)
  \/ \E key \in Keys : Exists(key)
  \/ \E ns \in Namespaces \cup BadKeys : GetSubKeys(ns)
  \/ \E key \in ObservedKeys, o \in Observers : AddObserver(key, o)
  \/ \E key \in ObservedKeys, o \in Observers : RemoveObserver(key, o)
  \/ Notify
  \/ NotifyDone
  \/ StartTransaction
  \/ CopyFile
  \/ CopyDone
  \/ CancelTransaction
  \/ \E ok \in BOOLEAN : SubmitDelete(ok)
  \/ SubmitRename
  \/ SubmitFsync
  \/ Crash
  \/ \E ok \in BOOLEAN : InitPrefs(ok)

Spec == Init /\ [][Next]_vars

\* The file store with transactions and crashes.
TxnKeys == {Key_k, Key_a_k}

TxnValues == {StringValue(<<"y">>)}

InitTxn == InitWith({"file"}, InitialContents, MaxTxnOps)

NextTxn ==
  \/ \E key \in TxnKeys, tv \in TxnValues : SetValue(key, tv, FALSE)
  \/ \E key \in TxnKeys : Delete(key, FALSE)
  \/ StartTransaction
  \/ CopyFile
  \/ CopyDone
  \/ CancelTransaction
  \/ \E ok \in BOOLEAN : SubmitDelete(ok)
  \/ SubmitRename
  \/ SubmitFsync
  \/ Crash
  \/ \E ok \in BOOLEAN : InitPrefs(ok)

SpecTxn == InitTxn /\ [][NextTxn]_vars

\* Both stores with observers, callbacks and storage failures.
ObsKeys == {Key_k, Key_a_k}

ObsValues == {StringValue(<<"y">>)}

InitObs == InitWith({"file", "memory"}, {NoValues}, MaxObsOps)

NextObs ==
  \/ \E key \in ObsKeys, tv \in ObsValues, fault \in BOOLEAN :
       (fault => backend = "file") /\ SetValue(key, tv, fault)
  \/ \E key \in ObsKeys, fault \in BOOLEAN :
       (fault => backend = "file") /\ Delete(key, fault)
  \/ \E key \in ObsKeys, o \in Observers : AddObserver(key, o)
  \/ \E key \in ObsKeys, o \in Observers : RemoveObserver(key, o)
  \/ Notify
  \/ NotifyDone

SpecObs == InitObs /\ [][NextObs]_vars

\* The file store with transactions and an observed key.
InitTxnObs == InitWith({"file"}, InitialContents, MaxTxnObsOps)

NextTxnObs ==
  \/ \E tv \in TxnValues : SetValue(Key_k, tv, FALSE)
  \/ Delete(Key_k, FALSE)
  \/ \E o \in Observers : AddObserver(Key_k, o)
  \/ Notify
  \/ NotifyDone
  \/ StartTransaction
  \/ CopyFile
  \/ CopyDone
  \/ CancelTransaction
  \/ \E ok \in BOOLEAN : SubmitDelete(ok)
  \/ SubmitRename
  \/ SubmitFsync

SpecTxnObs == InitTxnObs /\ [][NextTxnObs]_vars

\* Both stores with Delete(key, nss), inside and outside a transaction.
DelKeys == {Key_a_k, Key_a_b_k, Key_ab_k}

DelValues == {StringValue(<<"y">>)}

InitDel == InitWith({"file", "memory"}, InitialContents, MaxDelOps)

NextDel ==
  \/ \E key \in DelKeys, tv \in DelValues : SetValue(key, tv, FALSE)
  \/ \E nss \in NamespaceLists : DeleteNs(Key_k, nss)
  \/ StartTransaction
  \/ CopyFile
  \/ CopyDone

SpecDel == InitDel /\ [][NextDel]_vars

\* A file store and a memory store side by side: every call is made on both.
\* call.ret, call.text and call.out are the file store's answers, call.memRet,
\* call.memText and call.memOut the memory store's.
PairCall(c) ==
  /\ pc = "idle"
  /\ backend = "pair"
  /\ ops > 0
  /\ call' = c
  /\ notified' = <<>>
  /\ ops' = ops - 1
  /\ UNCHANGED <<backend, slack, payload, dpc, optimize, subprocess, verity, observers_, pc, copy_observers, copyTodo, txn>>

PairSet(key, value) ==
  LET f == FileSetKey(fs, key, value, FALSE)
  IN  /\ fs' = f.fs
      /\ values_' = MemSetKey(values_, key, value)
      /\ PairCall([NoCall EXCEPT !.op = "set", !.key = key, !.text = value,
                                 !.ret = BoolText(f.ok), !.memRet = "true"])

PairDelete(key) ==
  LET f == FileDeleteKey(fs, key, FALSE)
  IN  /\ fs' = f.fs
      /\ values_' = MemDeleteKey(values_, key)
      /\ PairCall([NoCall EXCEPT !.op = "delete", !.key = key,
                                 !.ret = BoolText(f.ok), !.memRet = "true"])

PairGet(key) ==
  LET f == FileGetKey(fs, key)
      m == MemGetKey(values_, key)
  IN  /\ UNCHANGED <<fs, values_>>
      /\ PairCall([NoCall EXCEPT !.op = "get", !.key = key,
                                 !.ret = BoolText(f # Absent), !.text = f,
                                 !.memRet = BoolText(m # Absent), !.memText = m])

PairExists(key) ==
  /\ UNCHANGED <<fs, values_>>
  /\ PairCall([NoCall EXCEPT !.op = "exists", !.key = key,
                             !.ret = BoolText(FileKeyExists(fs, key)),
                             !.memRet = BoolText(MemKeyExists(values_, key))])

PairGetSubKeys(ns) ==
  LET f == FileGetSubKeys(fs, ns)
      m == MemGetSubKeys(values_, ns)
  IN  /\ UNCHANGED <<fs, values_>>
      /\ PairCall([NoCall EXCEPT !.op = "sub_keys", !.key = ns,
                                 !.ret = BoolText(f.ok), !.out = f.keys,
                                 !.memRet = BoolText(m.ok), !.memOut = m.keys])

PairKeys == {Key_k, Key_a, Key_a_k}

PairValues == {<<"x">>, <<"y">>}

InitPair ==
  /\ backend = "pair"
  /\ payload = NoPayload
  /\ dpc = NoDpc
  /\ optimize = NoOptimize
  /\ subprocess = NoSubprocess
  /\ verity = NoVerity
  /\ slack \in SlackChars
  /\ fs = [root |-> EmptyDir, tmp |-> NoDir]
  /\ values_ = NoValues
  /\ observers_ = NoObservers
  /\ pc = "idle"
  /\ copy_observers = <<>>
  /\ notified = <<>>
  /\ copyTodo = {}
  /\ call = NoCall
  /\ txn = NoTxn
  /\ ops = MaxPairOps

NextPair ==
  \/ \E key \in PairKeys, value \in PairValues : PairSet(key, value)
  \/ \E key \in PairKeys : PairDelete(key)
  \/ \E key \in PairKeys : PairGet(key)
  \/ \E key \in PairKeys : PairExists(key)
  \/ \E ns \in Namespaces : PairGetSubKeys(ns)

SpecPair == InitPair /\ [][NextPair]_vars

\* Both stores with the typed setters and getters.
TypedKeys == {Key_k, Key_a_k}

TypedRoundTripValues ==
  {Int64Value(Int64Min),
   Int64Value(-3),
   Int64Value(0),
   Int64Value(10),
   Int64Value(Int64Max),
   BoolValue(TRUE),
   BoolValue(FALSE),
   StringValue(<<"x">>)}

InitTyped == InitWith({"file", "memory"}, {NoValues}, MaxTypedOps)

NextTyped ==
  \/ \E key \in TypedKeys, tv \in TypedRoundTripValues : SetValue(key, tv, FALSE)
  \/ \E key \in TypedKeys : GetInt64(key)
  \/ \E key \in TypedKeys : GetBoolean(key)

SpecTyped == InitTyped /\ [][NextTyped]_vars

\* ------------------------------------------- PayloadFile (the generator)
\* A file is a sequence of bytes, a byte a number in 0..255.

\* The magic at the start of a payload: 'C', 'r', 'A', 'U'.
kDeltaMagic == <<67, 114, 65, 85>>

\* The n low bytes of value, most significant first.
RECURSIVE BigEndian(_, _)
BigEndian(value, n) ==
  IF n = 0 THEN <<>> ELSE BigEndian(value \div 256, n - 1) \o <<value % 256>>

\* The bytes in host order on a little-endian machine.
WriteUint64AsBigEndian_HostOrder(value) ==
  LET be == BigEndian(value, 8) IN [i \in 1..8 |-> be[9 - i]]

\* WriteUint64AsBigEndian: the bytes written for value.
WriteUint64AsBigEndian(value) == BigEndian(value, 8)

\* The bytes of the blob of operation id.
BlobBytes(id, length) == [i \in 1..length |-> 100 + 10 * id + i]

\* The operations of a partition as the generator hands them to
\* AddPartition: "none" has no data blob, "one" and "two" have a blob of one
\* and of two bytes, stored in the blob file at base and behind.
BlobLength(kind) == CASE kind = "none" -> 0 [] kind = "one" -> 1 [] kind = "two" -> 2

RECURSIVE MakeOperations(_, _, _)
MakeOperations(kinds, id, base) ==
  IF kinds = <<>> THEN <<>>
  ELSE LET kind == Head(kinds)
           op == [has_data_offset |-> kind # "none",
                  data_offset |-> IF kind = "none" THEN 0 ELSE base,
                  data_length |-> BlobLength(kind),
                  data_sha256_hash |-> <<>>,
                  id |-> id]
       IN  <<op>> \o MakeOperations(Tail(kinds), id + 1, base + BlobLength(kind))

RECURSIVE BlobsOf(_)
BlobsOf(aops) ==
  IF aops = <<>> THEN <<>>
  ELSE BlobBytes(Head(aops).id, Head(aops).data_length) \o BlobsOf(Tail(aops))

\* The operations with their blobs moved by delta bytes in the blob file.
ShiftOperations(aops, delta) ==
  [i \in 1..Len(aops) |->
     IF aops[i].has_data_offset
     THEN [aops[i] EXCEPT !.data_offset = @ + delta]
     ELSE aops[i]]

OperationLists == {<<"two">>, <<"none", "one">>, <<"one", "none", "two">>}

\* AddPartition, with the blobs of the partition's operations stored in the
\* blob file: behind the blobs stored so far, or, for a partition whose
\* blobs were stored earlier than those of the partitions before it, in front.
AddPartition(kinds, where) ==
  /\ payload.pc = "config"
  /\ Len(payload.part_vec_) < MaxPartitions
  /\ LET base == IF where = "append" THEN Len(payload.data_blobs) ELSE 0
         aops == MakeOperations(kinds, payload.next_id, base)
         chunk == BlobsOf(aops)
         earlier == IF where = "append" THEN payload.part_vec_
                    ELSE [i \in 1..Len(payload.part_vec_) |->
                            [payload.part_vec_[i] EXCEPT
                               !.aops = ShiftOperations(@, Len(chunk))]]
     IN  payload' = [payload EXCEPT
           !.part_vec_ = Append(earlier, [aops |-> aops]),
           !.data_blobs = IF where = "append" THEN @ \o chunk ELSE chunk \o @,
           !.next_id = @ + Len(kinds)]
  /\ UNCHANGED <<backend, slack, dpc, optimize, subprocess, verity, fs, values_, observers_, pc, copy_observers,
                 notified, copyTodo, call, txn, ops>>

\* HashCalculator::RawHashOfData: the SHA-256 of the bytes, which tells
\* different byte strings apart.
RawHashOfData(buf) == <<"SHA-256", buf>>

\* The operation gets no hash.
AddOperationHash_NoHash(op, buf) == op

\* AddOperationHash: data_sha256_hash is the hash of the blob.
AddOperationHash(op, buf) == [op EXCEPT !.data_sha256_hash = RawHashOfData(buf)]

\* The inner loop without aop.op.set_data_offset(out_file_size): the
\* operations keep the offsets they have in the blob file.
RECURSIVE ReorderOperations_KeepOffsets(_, _, _)
ReorderOperations_KeepOffsets(aops, in, st) ==
  IF aops = <<>> \/ ~st.ok THEN st
  ELSE LET op == Head(aops)
       IN  IF ~op.has_data_offset
           THEN ReorderOperations_KeepOffsets(Tail(aops), in,
                  [st EXCEPT !.aops = Append(@, op)])
           ELSE IF op.data_offset + op.data_length > Len(in)
           THEN [st EXCEPT !.ok = FALSE]
           ELSE LET buf == SubSeq(in, op.data_offset + 1, op.data_offset + op.data_length)
                IN  ReorderOperations_KeepOffsets(Tail(aops), in,
                      [st EXCEPT !.aops = Append(@, AddOperationHash(op, buf)),
                                 !.out = @ \o buf,
                                 !.out_file_size = @ + Len(buf)])

\* ReorderDataBlobs, inner loop: every operation with a blob gets its blob
\* read from the blob file, hashed, appended to the ordered file, and its
\* data_offset set to the place in the ordered file.
RECURSIVE ReorderOperations(_, _, _)
ReorderOperations(aops, in, st) ==
  IF aops = <<>> \/ ~st.ok THEN st
  ELSE LET op == Head(aops)
       IN  IF ~op.has_data_offset
           THEN ReorderOperations(Tail(aops), in, [st EXCEPT !.aops = Append(@, op)])
           ELSE IF op.data_offset + op.data_length > Len(in)
           THEN [st EXCEPT !.ok = FALSE]
           ELSE LET buf == SubSeq(in, op.data_offset + 1, op.data_offset + op.data_length)
                    done == [AddOperationHash(op, buf)
                               EXCEPT !.data_offset = st.out_file_size]
                IN  ReorderOperations(Tail(aops), in,
                      [st EXCEPT !.aops = Append(@, done),
                                 !.out = @ \o buf,
                                 !.out_file_size = @ + Len(buf)])

\* ReorderDataBlobs, outer loop over part_vec_.
RECURSIVE ReorderPartitions(_, _, _)
ReorderPartitions(parts, in, st) ==
  IF parts = <<>> \/ ~st.ok THEN st
  ELSE LET r == ReorderOperations(Head(parts).aops, in, [st EXCEPT !.aops = <<>>])
       IN  ReorderPartitions(Tail(parts), in,
             [r EXCEPT !.part_vec_ = Append(@, [Head(parts) EXCEPT !.aops = r.aops])])

ReorderDataBlobs(part_vec, in) ==
  ReorderPartitions(part_vec, in,
    [ok |-> TRUE, part_vec_ |-> <<>>, aops |-> <<>>, out |-> <<>>, out_file_size |-> 0])

\* The operations of all partitions, in manifest order.
RECURSIVE AllOperations(_)
AllOperations(parts) ==
  IF parts = <<>> THEN <<>> ELSE Head(parts).aops \o AllOperations(Tail(parts))

\* The blob offsets verified with next_blob_offset counting blobs, not bytes.
RECURSIVE CheckBlobOffsets_CountsBlobs(_, _)
CheckBlobOffsets_CountsBlobs(aops, st) ==
  IF aops = <<>> THEN st
  ELSE LET op == Head(aops)
       IN  IF ~op.has_data_offset THEN CheckBlobOffsets_CountsBlobs(Tail(aops), st)
           ELSE CheckBlobOffsets_CountsBlobs(Tail(aops),
                  [ok |-> st.ok /\ op.data_offset = st.next_blob_offset,
                   next_blob_offset |-> st.next_blob_offset + 1])

\* "Check that install op blobs are in order": the running next_blob_offset,
\* and whether every data_offset was equal to it.
RECURSIVE CheckBlobOffsets(_, _)
CheckBlobOffsets(aops, st) ==
  IF aops = <<>> THEN st
  ELSE LET op == Head(aops)
       IN  IF ~op.has_data_offset THEN CheckBlobOffsets(Tail(aops), st)
           ELSE CheckBlobOffsets(Tail(aops),
                  [ok |-> st.ok /\ op.data_offset = st.next_blob_offset,
                   next_blob_offset |-> st.next_blob_offset + op.data_length])

\* PayloadSigner::SignatureBlobLength for the key: the length of a signature
\* blob.
SignatureBlobLength == 3

\* PayloadSigner::SignHashWithKeys / SignPayload: a signature blob.
SignatureBlob(byte) == [i \in 1..SignatureBlobLength |-> byte]

\* DeltaArchiveManifest::SerializeToString: a tag per partition and per
\* operation, the data_offset and data_length of the operations with a blob,
\* and the two signature fields when they are set.
RECURSIVE SerializeOperations(_)
SerializeOperations(aops) ==
  IF aops = <<>> THEN <<>>
  ELSE (IF Head(aops).has_data_offset
        THEN <<66, Head(aops).data_offset, Head(aops).data_length>>
        ELSE <<64>>) \o SerializeOperations(Tail(aops))

RECURSIVE SerializePartitions(_)
SerializePartitions(parts) ==
  IF parts = <<>> THEN <<>>
  ELSE <<106, Len(Head(parts).operations)>>
         \o SerializeOperations(Head(parts).operations)
         \o SerializePartitions(Tail(parts))

SerializeToString(manifest) ==
  SerializePartitions(manifest.partitions)
    \o (IF manifest.has_signatures
        THEN <<32, manifest.signatures_offset, 40, manifest.signatures_size>>
        ELSE <<>>)

PrefsUnchanged ==
  UNCHANGED <<backend, slack, dpc, optimize, subprocess, verity, fs, values_, observers_, pc, copy_observers,
              notified, copyTodo, call, txn, ops>>

\* WritePayload(payload_file, data_blobs_path, private_key_path, ...) is
\* called: ReorderDataBlobs.  The blob file may be shorter than the
\* operations say.
WritePayloadReorder(signed, truncated) ==
  /\ payload.pc = "config"
  /\ LET in == IF truncated /\ payload.data_blobs # <<>>
               THEN SubSeq(payload.data_blobs, 1, Len(payload.data_blobs) - 1)
               ELSE payload.data_blobs
         r == ReorderDataBlobs(payload.part_vec_, in)
     IN  payload' =
           IF r.ok
           THEN [payload EXCEPT !.pc = "reordered", !.signed = signed,
                                !.part_vec_ = r.part_vec_, !.ordered_blobs = r.out]
           ELSE [payload EXCEPT !.pc = "failed", !.signed = signed, !.ret = "false"]
  /\ PrefsUnchanged

\* The size counted with one uint64_t field only.
HeaderSizeBeforeSignatureField_OneField(manifest_length) ==
  Len(kDeltaMagic) + 8 + manifest_length

\* The size the header is counted with before the metadata signature size
\* field is written: sizeof(kDeltaMagic) + 2 * sizeof(uint64_t) + the
\* manifest.
HeaderSizeBeforeSignatureField(manifest_length) == Len(kDeltaMagic) + 2 * 8 + manifest_length

\* The blob offsets are checked, part_vec_ is copied to the manifest, and
\* the signature fields are added for a signed payload; the static
\* WritePayload serializes the manifest.
WritePayloadManifest ==
  /\ payload.pc = "reordered"
  /\ LET chk == CheckBlobOffsets(AllOperations(payload.part_vec_),
                                 [ok |-> TRUE, next_blob_offset |-> 0])
         partitions == [i \in 1..Len(payload.part_vec_) |->
                          [operations |-> payload.part_vec_[i].aops]]
         manifest == [partitions |-> partitions,
                      has_signatures |-> payload.signed,
                      signatures_offset |-> IF payload.signed THEN chk.next_blob_offset ELSE 0,
                      signatures_size |-> IF payload.signed THEN SignatureBlobLength ELSE 0]
         serialized == SerializeToString(manifest)
     IN  payload' =
           IF ~chk.ok
           THEN [payload EXCEPT !.pc = "aborted"]
           ELSE [payload EXCEPT
                   !.pc = "header",
                   !.manifest_ = manifest,
                   !.serialized_manifest = serialized,
                   !.metadata_size = HeaderSizeBeforeSignatureField(Len(serialized)),
                   !.file = <<>>]
  /\ PrefsUnchanged

\* The magic, the major version, the manifest length and the metadata
\* signature length are written.
WriteHeader ==
  /\ payload.pc = "header"
  /\ LET signature_blob_length == payload.manifest_.signatures_size
     IN  payload' = [payload EXCEPT
           !.pc = "manifest",
           !.file = kDeltaMagic
                      \o WriteUint64AsBigEndian(payload.major_version_)
                      \o WriteUint64AsBigEndian(Len(payload.serialized_manifest))
                      \o BigEndian(signature_blob_length, 4),
           !.metadata_size = @ + 4]
  /\ PrefsUnchanged

WriteManifest ==
  /\ payload.pc = "manifest"
  /\ payload' = [payload EXCEPT
       !.pc = "metadata_signature",
       !.manifest_at = Len(payload.file),
       !.file = @ \o payload.serialized_manifest]
  /\ PrefsUnchanged

\* The metadata signature, for a signed payload.
WriteMetadataSignature ==
  /\ payload.pc = "metadata_signature"
  /\ payload' =
       IF payload.signed
       THEN [payload EXCEPT
               !.pc = "blobs",
               !.metadata_signature_at = Len(payload.file),
               !.metadata_signature = SignatureBlob(170),
               !.file = @ \o SignatureBlob(170)]
       ELSE [payload EXCEPT !.pc = "blobs", !.metadata_signature_at = Len(payload.file)]
  /\ PrefsUnchanged

\* The ordered blob file is appended.
AppendBlobs ==
  /\ payload.pc = "blobs"
  /\ payload' = [payload EXCEPT
       !.pc = "signature",
       !.blobs_at = Len(payload.file),
       !.file = @ \o payload.ordered_blobs]
  /\ PrefsUnchanged

\* The payload signature, for a signed payload; metadata_size_out is set and
\* WritePayload returns true.
WritePayloadSignature ==
  /\ payload.pc = "signature"
  /\ payload' =
       IF payload.signed
       THEN [payload EXCEPT
               !.pc = "done", !.ret = "true",
               !.signature_at = Len(payload.file),
               !.signature = SignatureBlob(187),
               !.file = @ \o SignatureBlob(187),
               !.metadata_size_out = payload.metadata_size]
       ELSE [payload EXCEPT
               !.pc = "done", !.ret = "true",
               !.signature_at = Len(payload.file),
               !.metadata_size_out = payload.metadata_size]
  /\ PrefsUnchanged

\* kBrilloMajorPayloadVersion, the major version of the payloads generated.
MajorVersions == {2}

InitPayload ==
  /\ backend = "memory"
  /\ slack = NUL
  /\ fs = [root |-> NoDir, tmp |-> NoDir]
  /\ values_ = NoValues
  /\ observers_ = NoObservers
  /\ pc = "idle"
  /\ copy_observers = <<>>
  /\ notified = <<>>
  /\ copyTodo = {}
  /\ call = NoCall
  /\ txn = NoTxn
  /\ ops = 0
  /\ dpc = NoDpc
  /\ optimize = NoOptimize
  /\ subprocess = NoSubprocess
  /\ verity = NoVerity
  /\ \E v \in MajorVersions :
       payload = [NoPayload EXCEPT !.pc = "config", !.major_version_ = v]

NextPayload ==
  \/ \E kinds \in OperationLists, where \in {"append", "prepend"} :
       AddPartition(kinds, where)
  \/ \E signed \in BOOLEAN, truncated \in BOOLEAN : WritePayloadReorder(signed, truncated)
  \/ WritePayloadManifest
  \/ WriteHeader
  \/ WriteManifest
  \/ WriteMetadataSignature
  \/ AppendBlobs
  \/ WritePayloadSignature

SpecPayload == InitPayload /\ [][NextPayload]_vars

\* The static WritePayload called by another caller than the member, with
\* the ordered blob file, a manifest of the caller's and a key or none: the
\* manifest has the signature fields or not, whatever the key.
StaticWritePayload(private_key, has_signatures) ==
  /\ payload.pc = "reordered"
  /\ LET partitions == [i \in 1..Len(payload.part_vec_) |->
                          [operations |-> payload.part_vec_[i].aops]]
         manifest == [partitions |-> partitions,
                      has_signatures |-> has_signatures,
                      signatures_offset |-> IF has_signatures
                                            THEN Len(payload.ordered_blobs) ELSE 0,
                      signatures_size |-> IF has_signatures
                                          THEN SignatureBlobLength ELSE 0]
         serialized == SerializeToString(manifest)
     IN  payload' = [payload EXCEPT
                       !.pc = "header",
                       !.static_call = TRUE,
                       !.signed = private_key,
                       !.manifest_ = manifest,
                       !.serialized_manifest = serialized,
                       !.metadata_size = HeaderSizeBeforeSignatureField(Len(serialized)),
                       !.file = <<>>]
  /\ PrefsUnchanged

\* The member WritePayload after the static one has returned false: the
\* result is not looked at, ReportPayloadUsage(*metadata_size_out) reads
\* what the caller's variable holds, and true is returned.
MemberAfterStaticFailed(p, garbage) ==
  [p EXCEPT !.pc = "done", !.ret = "true", !.read_unset = TRUE,
            !.reported = garbage]

\* A step of the static WritePayload fails (the file cannot be opened or
\* written, the blob file not read, the hash not signed): it returns false.
WriteFails(garbage) ==
  /\ payload.pc \in {"header", "manifest", "metadata_signature", "blobs", "signature"}
  /\ payload' = IF payload.static_call
                THEN [payload EXCEPT !.pc = "failed", !.ret = "false"]
                ELSE MemberAfterStaticFailed(payload, garbage)
  /\ PrefsUnchanged

NextPayloadIO ==
  \/ NextPayload
  \/ \E private_key \in BOOLEAN, has_signatures \in BOOLEAN :
       StaticWritePayload(private_key, has_signatures)
  \/ \E garbage \in {0, 255} : WriteFails(garbage)

SpecPayloadIO == InitPayload /\ [][NextPayloadIO]_vars

\* ------------------------------------------ DynamicPartitionControlAndroid
\* The size of the one group PartitionSizesToManifest puts every partition
\* in, and of a super partition with room for two slots of it and 1 MiB.
kDefaultGroupSize == 5 * GiB

kDefaultSuperSize == 2 * kDefaultGroupSize + 1

RECURSIVE SumOf(_, _)
SumOf(f, S) ==
  IF S = {} THEN 0
  ELSE LET x == CHOOSE y \in S : TRUE IN f[x] + SumOf(f, S \ {x})

\* The sum of the maximum sizes of the groups of an update manifest.
TotalGroupSize(manifest) ==
  SumOf([g \in GroupNames |->
           IF manifest.groups[g] = NoGroup THEN 0 ELSE manifest.groups[g]],
        GroupNames)

\* The sum of the sizes of the partitions of an update manifest.
TotalPartitionSize(manifest) ==
  SumOf([p \in PartitionNames |-> manifest.parts[p].size], PartitionNames)

\* The sum of the sizes of the partitions an update manifest puts in group g.
GroupUsed(manifest, g) ==
  SumOf([p \in PartitionNames |->
           IF manifest.parts[p].group = g THEN manifest.parts[p].size ELSE 0],
        PartitionNames)

\* The space the partitions of both slots take in super.
UsedSpace(builder) ==
  SumOf([k \in PartitionNames \X Slots |-> builder.parts[k].size],
        PartitionNames \X Slots)

\* The groups and partitions of every slot go.
DeleteGroupsWithSuffix_AnySuffix(builder, slot) == EmptyMetadata

\* DeleteGroupsWithSuffix: the groups of one slot and their partitions go.
DeleteGroupsWithSuffix(builder, slot) ==
  [groups |-> [k \in GroupNames \X Slots |->
                 IF k[2] = slot THEN NoGroup ELSE builder.groups[k]],
   parts |-> [k \in PartitionNames \X Slots |->
                IF k[2] = slot THEN NoPartition ELSE builder.parts[k]]]

\* The groups and partitions of the manifest added with the slot's suffix.
AddGroupsAndPartitions(builder, slot, manifest) ==
  [groups |-> [k \in GroupNames \X Slots |->
                 IF k[2] = slot THEN manifest.groups[k[1]] ELSE builder.groups[k]],
   parts |-> [k \in PartitionNames \X Slots |->
                IF k[2] = slot THEN manifest.parts[k[1]] ELSE builder.parts[k]]]

\* The space of super the groups of one slot may add up to, without a limit
\* per slot.
AllocatableSpaceForSlot_WholeSuper(super_size, virtual_ab) == super_size

\* The space of super the groups of one slot may add up to: half of super
\* where the two slots must coexist, all of it on a Virtual A/B device.
AllocatableSpaceForSlot(super_size, virtual_ab) ==
  IF virtual_ab THEN super_size ELSE super_size \div 2

\* Partitions resized without looking at the group's maximum size.
PartitionsFitGroups_Unchecked(manifest) == TRUE

\* Every group's partitions can be resized to the sizes of the manifest
\* within the group's maximum size.
PartitionsFitGroups(manifest) ==
  \A g \in GroupNames :
    manifest.groups[g] # NoGroup => GroupUsed(manifest, g) <= manifest.groups[g]

\* UpdatePartitionMetadata(builder, target_slot, manifest): the target
\* slot's groups are deleted and those of the manifest added, unless the
\* groups exceed the space for a slot, a group's partitions its maximum
\* size, or the partitions of both slots the space of super.
UpdatePartitionMetadataInternal(builder, super_size, virtual_ab, target, manifest) ==
  LET cleared == DeleteGroupsWithSuffix(builder, target)
      added == AddGroupsAndPartitions(cleared, target, manifest)
  IN  IF TotalGroupSize(manifest) > AllocatableSpaceForSlot(super_size, virtual_ab)
      THEN [ok |-> FALSE, builder |-> cleared]
      ELSE IF ~PartitionsFitGroups(manifest)
      THEN [ok |-> FALSE, builder |-> cleared]
      ELSE IF UsedSpace(added) > super_size
      THEN [ok |-> FALSE, builder |-> cleared]
      ELSE [ok |-> TRUE, builder |-> added]

DpcPrefsUnchanged ==
  UNCHANGED <<backend, slack, payload, optimize, subprocess, verity, fs, values_, observers_, pc,
              copy_observers, notified, copyTodo, call, txn, ops>>

\* The test fixture's UpdatePartitionMetadata: the module's
\* UpdatePartitionMetadata on a builder made from the source metadata.
UpdatePartitionMetadata(update) ==
  /\ dpc.pc = "ready"
  /\ dpc.source # dpc.target
  /\ LET r == UpdatePartitionMetadataInternal(dpc.metadata, dpc.super_size,
                                              dpc.virtual_ab, dpc.target, update)
     IN  dpc' = [dpc EXCEPT !.pc = "done", !.op = "update", !.update = update,
                            !.builder = r.builder,
                            !.ret = IF r.ok THEN "true" ELSE "false"]
  /\ DpcPrefsUnchanged

\* No device is unmapped.
PartitionsOfManifest_None(manifest) == {}

\* The partitions the groups of the manifest name.
PartitionsOfManifest(manifest) ==
  {p \in PartitionNames : manifest.parts[p] # NoPartition}

\* PrepareDynamicPartitionsForUpdate: the target slot's devices of the
\* partitions of the manifest are unmapped; the metadata of super is loaded
\* (and the update refused if it cannot be loaded), the source slot's groups
\* are deleted from it if delete_source, it is updated for the target slot
\* and, if that was accepted, stored.
PrepareDynamicPartitionsForUpdate(d, update, delete_source) ==
  LET called == [d EXCEPT
                   !.calls = Append(@, "PrepareDynamicPartitionsForUpdate"),
                   !.delete_source = delete_source,
                   !.unmapped = {<<p, d.target>> : p \in PartitionsOfManifest(update)}]
      loaded == IF delete_source THEN DeleteGroupsWithSuffix(d.metadata, d.source)
                ELSE d.metadata
      r == UpdatePartitionMetadataInternal(loaded, d.super_size, d.virtual_ab,
                                           d.target, update)
  IN  IF d.corrupt THEN [called EXCEPT !.ret = "false"]
      ELSE IF r.ok
      THEN [called EXCEPT !.builder = r.builder, !.ret = "true", !.stored = TRUE,
                          !.stored_metadata = r.builder, !.required_size = 0]
      ELSE [called EXCEPT !.builder = r.builder, !.ret = "false"]

\* No update is prepared for no slot at all.
ApplyingToCurrentSlot_Allowed(source, target) == FALSE

\* "Cannot call PreparePartitionsForUpdate on current slot."
ApplyingToCurrentSlot(source, target) == source = target

\* The snapshots prepared without passing up the size asked for.
PrepareSnapshotPartitionsForUpdate_NoSize(d, snapshots) ==
  LET called == [d EXCEPT !.calls = @ \o <<"BeginUpdate", "CreateUpdateSnapshots">>]
  IN  IF snapshots = "ok" THEN [called EXCEPT !.ret = "true"]
      ELSE [called EXCEPT !.ret = "false"]

\* PrepareSnapshotPartitionsForUpdate: BeginUpdate, then
\* CreateUpdateSnapshots; when that fails for lack of space the size it
\* asks for is passed up.
PrepareSnapshotPartitionsForUpdate(d, snapshots) ==
  LET called == [d EXCEPT !.calls = @ \o <<"BeginUpdate", "CreateUpdateSnapshots">>]
  IN  IF snapshots = "ok" THEN [called EXCEPT !.ret = "true"]
      ELSE [called EXCEPT !.ret = "false", !.required_size = GiB]

\* PreparePartitionsForUpdate(source, target, manifest, true, &required_size),
\* with the source metadata unreadable (corrupt) or not, which the unit
\* test tries without Virtual A/B:
\* refused for the current slot; on a Virtual A/B device the snapshots are
\* created, and only in recovery, when that fails, the update is cancelled
\* and goes to super in place of the source slot; without Virtual A/B it
\* goes to super beside the source slot.
PreparePartitionsForUpdate(update, snapshots, corrupt) ==
  /\ dpc.pc = "ready"
  /\ snapshots = "none" <=> ~dpc.virtual_ab
  /\ corrupt => ~dpc.virtual_ab
  /\ LET d == [dpc EXCEPT !.pc = "done", !.op = "prepare", !.update = update,
                          !.snapshots = snapshots, !.corrupt = corrupt]
         s == PrepareSnapshotPartitionsForUpdate(d, snapshots)
     IN  dpc' = IF ApplyingToCurrentSlot(d.source, d.target)
                THEN [d EXCEPT !.ret = "false"]
                ELSE IF ~d.virtual_ab
                THEN PrepareDynamicPartitionsForUpdate(d, update, FALSE)
                ELSE IF s.ret = "true" THEN s
                ELSE IF ~d.recovery THEN s
                ELSE PrepareDynamicPartitionsForUpdate(
                       [s EXCEPT !.calls = Append(@, "CancelUpdate")], update, TRUE)
  /\ DpcPrefsUnchanged

\* The metadata of DynamicPartitionControlAndroidGroupTestP: groups android
\* and oem in both slots, the target slot's partitions empty.
GroupTestMetadata(source, target) ==
  [groups |-> [k \in GroupNames \X Slots |->
                 CASE k[1] = "android" -> 3 * GiB
                   [] k[1] = "oem" -> 2 * GiB
                   [] OTHER -> NoGroup],
   parts |-> [k \in PartitionNames \X Slots |->
                CASE k[1] = "system" ->
                       [group |-> "android", size |-> IF k[2] = source THEN 2 * GiB ELSE 0]
                  [] k[1] = "vendor" ->
                       [group |-> "oem", size |-> IF k[2] = source THEN GiB ELSE 0]]]

\* PartitionSizesToManifest: every partition given is in the one group
\* "group" of kDefaultGroupSize; absent stands for a partition not given.
PartitionSizesToManifest(system, vendor) ==
  [groups |-> [g \in GroupNames |->
                 IF g = "group" THEN kDefaultGroupSize ELSE NoGroup],
   parts |-> [p \in PartitionNames |->
                LET size == IF p = "system" THEN system ELSE vendor
                IN  IF size < 0 THEN NoPartition
                    ELSE [group |-> "group", size |-> size]]]

\* The source metadata of NeedGrowIfSizeNotMatchWhenResizing: system 2 GiB
\* and vendor 1 GiB in both slots.
NeedResizeMetadata ==
  LET m == PartitionSizesToManifest(2 * GiB, GiB)
  IN  [groups |-> [k \in GroupNames \X Slots |-> m.groups[k[1]]],
       parts |-> [k \in PartitionNames \X Slots |-> m.parts[k[1]]]]

\* PartitionSuffixSizesToManifest of source partitions with empty target
\* partitions, as metadata of super.
SuffixSizesMetadata(source, target, system, vendor) ==
  LET m == PartitionSizesToManifest(system, vendor)
      t == PartitionSizesToManifest(0, 0)
  IN  [groups |-> [k \in GroupNames \X Slots |-> m.groups[k[1]]],
       parts |-> [k \in PartitionNames \X Slots |->
                    IF k[2] = source THEN m.parts[k[1]] ELSE t.parts[k[1]]]]

\* AddGroupAndPartition(android, ..., system, ...) and (oem, ..., vendor,
\* ...), or AddGroup alone where the partition is absent.
GroupManifest(android, system, oem, vendor) ==
  [groups |-> [g \in GroupNames |->
                 CASE g = "android" -> android
                   [] g = "oem" -> oem
                   [] OTHER -> NoGroup],
   parts |-> [p \in PartitionNames |->
                CASE p = "system" ->
                       IF system < 0 THEN NoPartition
                       ELSE [group |-> "android", size |-> system]
                  [] p = "vendor" ->
                       IF vendor < 0 THEN NoPartition
                       ELSE [group |-> "oem", size |-> vendor]]]

\* The sizes the update manifests are drawn from; -1 is "not in the manifest".
GroupSizes == {NoGroup, 2 * GiB, 3 * GiB}

PartitionSizes == {-1, GiB, 2 * GiB, 3 * GiB}

UpdateManifests ==
  {PartitionSizesToManifest(s, v) : s \in PartitionSizes, v \in PartitionSizes}
  \cup
  {GroupManifest(t[1], t[2], t[3], t[4]) :
     t \in {u \in GroupSizes \X PartitionSizes \X GroupSizes \X PartitionSizes :
              /\ u[1] = NoGroup => u[2] = -1
              /\ u[3] = NoGroup => u[4] = -1}}

SourceMetadatas(source, target) ==
  {EmptyMetadata,
   GroupTestMetadata(source, target),
   SuffixSizesMetadata(source, target, 3 * GiB, 2 * GiB),
   SuffixSizesMetadata(source, target, GiB, GiB),
   SuffixSizesMetadata(source, target, 2 * GiB, GiB),
   NeedResizeMetadata}

\* TestParam{0, 1}, TestParam{1, 0}, and SetSlots({1, 1}) of
\* ApplyingToCurrentSlot.
TestParams == {<<0, 1>>, <<1, 0>>, <<1, 1>>}

\* The super partition of the fixtures, and one with room for one slot.
SuperSizes == {kDefaultSuperSize, kDefaultGroupSize + 1}

InitDpc ==
  /\ backend = "memory"
  /\ slack = NUL
  /\ payload = NoPayload
  /\ optimize = NoOptimize
  /\ subprocess = NoSubprocess
  /\ verity = NoVerity
  /\ fs = [root |-> NoDir, tmp |-> NoDir]
  /\ values_ = NoValues
  /\ observers_ = NoObservers
  /\ pc = "idle"
  /\ copy_observers = <<>>
  /\ notified = <<>>
  /\ copyTodo = {}
  /\ call = NoCall
  /\ txn = NoTxn
  /\ ops = 0
  /\ \E slots \in TestParams, virtual_ab \in BOOLEAN, recovery \in BOOLEAN,
        super_size \in SuperSizes :
       \E metadata \in SourceMetadatas(slots[1], slots[2]) :
         /\ UsedSpace(metadata) <= super_size
         /\ dpc = [NoDpc EXCEPT !.pc = "ready", !.source = slots[1],
                                !.target = slots[2], !.virtual_ab = virtual_ab,
                                !.recovery = recovery, !.super_size = super_size,
                                !.metadata = metadata]

NextDpc ==
  \/ \E update \in UpdateManifests : UpdatePartitionMetadata(update)
  \/ \E update \in UpdateManifests, snapshots \in {"none", "ok", "no_space"},
        corrupt \in BOOLEAN :
       PreparePartitionsForUpdate(update, snapshots, corrupt)

SpecDpc == InitDpc /\ [][NextDpc]_vars

\* ------------------------------------------------- OptimizeOperation
\*
\* DynamicPartitionControlAndroid::OptimizeOperation, as the test
\* OptimizeOperationTest drives it: one dynamic partition "foo" in the
\* update, "bar" a static partition.  Extents are runs of blocks.

MaxExtents == 3

Extent(start_block, num_blocks) ==
  [start_block |-> start_block, num_blocks |-> num_blocks]

\* [1], [3, 4], [7, 8] and [2 .. 6]: the extents of the test's last case.
Extents == {Extent(1, 1), Extent(3, 2), Extent(7, 2), Extent(2, 5)}

ExtentLists == UNION {[1..n -> Extents] : n \in 0..MaxExtents}

OperationTypes == {"REPLACE", "SOURCE_COPY"}

NoOperation == [type |-> "none", src_extents |-> <<>>, dst_extents |-> <<>>]

\* The last extent grows when the run continues it, else a new extent.
AppendExtent_NeverMerged(extents, start_block, num_blocks) ==
  Append(extents, Extent(start_block, num_blocks))

AppendExtent(extents, start_block, num_blocks) ==
  IF /\ Len(extents) > 0
     /\ extents[Len(extents)].start_block + extents[Len(extents)].num_blocks
          = start_block
  THEN [extents EXCEPT ![Len(extents)].num_blocks = @ + num_blocks]
  ELSE Append(extents, Extent(start_block, num_blocks))

\* The walk over both extent lists in steps of the blocks left in the
\* current source extent or the current destination extent, whichever is
\* less.  s and d are the current extents, s_offset and d_offset the blocks
\* of them already walked; a step that copies blocks onto themselves is left
\* out of the result, any other step is appended to it.
RECURSIVE OptimizeWalk(_, _, _, _, _, _, _, _)
OptimizeWalk(src, dst, s, d, s_offset, d_offset, result, is_optimized) ==
  IF s > Len(src) /\ d > Len(dst)
  THEN [ok |-> TRUE, is_optimized |-> is_optimized, optimized |-> result]
  ELSE IF s > Len(src) \/ d > Len(dst)
  THEN [ok |-> FALSE, is_optimized |-> is_optimized, optimized |-> result]
  ELSE
    LET s_step == src[s].num_blocks - s_offset
        d_step == dst[d].num_blocks - d_offset
        step == IF s_step < d_step THEN s_step ELSE d_step
        s_block == src[s].start_block + s_offset
        d_block == dst[d].start_block + d_offset
        moved == s_block # d_block
        next ==
          IF moved
          THEN [result EXCEPT
                  !.src_extents = AppendExtent(@, s_block, step),
                  !.dst_extents = AppendExtent(@, d_block, step)]
          ELSE result
        s_done == s_offset + step = src[s].num_blocks
        d_done == d_offset + step = dst[d].num_blocks
    IN  OptimizeWalk(src, dst,
                     IF s_done THEN s + 1 ELSE s,
                     IF d_done THEN d + 1 ELSE d,
                     IF s_done THEN 0 ELSE s_offset + step,
                     IF d_done THEN 0 ELSE d_offset + step,
                     next, is_optimized \/ ~moved)

\* OptimizeSourceCopyOperation: empty lists give the empty operation; else
\* the walk.  Whether an operation in which every block moves counts as
\* optimized is for the snapshot library to say: accept_unoptimized.
OptimizeSourceCopyOperation(operation, accept_unoptimized) ==
  LET empty == [type |-> "SOURCE_COPY", src_extents |-> <<>>, dst_extents |-> <<>>]
      walk == OptimizeWalk(operation.src_extents, operation.dst_extents,
                           1, 1, 0, 0, empty, FALSE)
  IN  IF operation.src_extents = <<>> /\ operation.dst_extents = <<>>
      THEN [ok |-> TRUE, optimized |-> empty]
      ELSE [ok |-> walk.ok /\ (walk.is_optimized \/ accept_unoptimized),
            optimized |-> walk.optimized]

\* What OptimizeOperation asks before it optimizes a SOURCE_COPY.
CanOptimize_AnyPartition(o) ==
  /\ o.operation.type = "SOURCE_COPY"
  /\ o.target_supports_snapshot
  /\ o.virtual_ab

CanOptimize(o) ==
  /\ o.operation.type = "SOURCE_COPY"
  /\ o.target_supports_snapshot
  /\ o.virtual_ab
  /\ o.partition_name \in o.mapped_devices

OptimizeOperation(accept_unoptimized) ==
  /\ optimize.pc = "ready"
  /\ LET r == OptimizeSourceCopyOperation(optimize.operation, accept_unoptimized)
     IN  optimize' =
           IF CanOptimize(optimize)
           THEN [optimize EXCEPT !.pc = "done",
                                 !.ret = IF r.ok THEN "true" ELSE "false",
                                 !.optimized = r.optimized]
           ELSE [optimize EXCEPT !.pc = "done", !.ret = "false"]
  /\ UNCHANGED <<backend, slack, payload, dpc, subprocess, verity, fs, values_,
                 observers_, pc, copy_observers, notified, copyTodo, call, txn, ops>>

\* The device and the operation: every combination of what OptimizeOperation
\* asks about with operations of at most one extent a side, and every
\* operation on a device where all of it is given.  On a retrofit device the
\* target partitions are static: none is mapped.
InitOptimize ==
  /\ backend = "memory"
  /\ slack = NUL
  /\ payload = NoPayload
  /\ dpc = NoDpc
  /\ subprocess = NoSubprocess
  /\ verity = NoVerity
  /\ fs = [root |-> NoDir, tmp |-> NoDir]
  /\ values_ = NoValues
  /\ observers_ = NoObservers
  /\ pc = "idle"
  /\ copy_observers = <<>>
  /\ notified = <<>>
  /\ copyTodo = {}
  /\ call = NoCall
  /\ txn = NoTxn
  /\ ops = 0
  /\ \E virtual_ab \in BOOLEAN, target_supports_snapshot \in BOOLEAN,
        retrofit \in BOOLEAN, mapped_devices \in SUBSET {"foo"},
        partition_name \in {"foo", "bar"}, type \in OperationTypes,
        src_extents \in ExtentLists, dst_extents \in ExtentLists :
       /\ retrofit => mapped_devices = {}
       /\ \/ Len(src_extents) <= 1 /\ Len(dst_extents) <= 1
          \/ /\ virtual_ab /\ target_supports_snapshot /\ ~retrofit
             /\ mapped_devices = {"foo"} /\ partition_name = "foo"
             /\ type = "SOURCE_COPY"
       /\ optimize = [pc |-> "ready", virtual_ab |-> virtual_ab,
                      target_supports_snapshot |-> target_supports_snapshot,
                      retrofit |-> retrofit, mapped_devices |-> mapped_devices,
                      partition_name |-> partition_name,
                      operation |-> [type |-> type, src_extents |-> src_extents,
                                     dst_extents |-> dst_extents],
                      ret |-> "none", optimized |-> NoOperation]

NextOptimize == \E accept_unoptimized \in BOOLEAN : OptimizeOperation(accept_unoptimized)

SpecOptimize == InitOptimize /\ [][NextOptimize]_vars

\* ------------------------------------------ VerityWriterInterface
\*
\* Finalize of the interface, on a writer that has hash tree slices and FEC
\* slices left to write.  IncrementalFinalize and FECFinished are pure
\* virtual: a successful IncrementalFinalize writes one slice, FECFinished
\* is true once none is left.  fail_at is the call that fails, 0 for none.

MaxSlices == 3

MaxCalls == 2 * MaxSlices + 1

FECFinished(v) == v.hash_left = 0 /\ v.fec_left = 0

IncrementalFinalize(v) ==
  LET ok == v.fail_at # Len(v.calls) + 1
      called == IF Len(v.calls) < MaxCalls
                THEN [v EXCEPT !.calls = Append(@, ok)] ELSE v
  IN  [ok |-> ok,
       writer |-> IF ~ok THEN called
                  ELSE IF v.hash_left > 0
                  THEN [called EXCEPT !.hash_left = @ - 1]
                  ELSE IF v.fec_left > 0
                  THEN [called EXCEPT !.fec_left = @ - 1]
                  ELSE called]

\* One turn of the loop that goes on after a failed call.
FinalizeTurn_IgnoresFailure(v) ==
  IF FECFinished(v)
  THEN [v EXCEPT !.pc = "done", !.ret = "true"]
  ELSE IncrementalFinalize(v).writer

\* One turn of a loop that does not ask FECFinished().
FinalizeTurn_NeverAsks(v) ==
  LET r == IncrementalFinalize(v)
  IN  IF r.ok THEN r.writer
      ELSE [r.writer EXCEPT !.pc = "done", !.ret = "false"]

\* One turn of while (!FECFinished()) TEST_AND_RETURN_FALSE(...); return true.
FinalizeTurn(v) ==
  IF FECFinished(v)
  THEN [v EXCEPT !.pc = "done", !.ret = "true"]
  ELSE LET r == IncrementalFinalize(v)
       IN  IF r.ok THEN r.writer
           ELSE [r.writer EXCEPT !.pc = "done", !.ret = "false"]

VerityPrefsUnchanged ==
  UNCHANGED <<backend, slack, payload, dpc, optimize, subprocess, fs, values_,
              observers_, pc, copy_observers, notified, copyTodo, call, txn, ops>>

\* The call of Finalize.
Finalize ==
  /\ verity.pc = "ready"
  /\ verity' = [verity EXCEPT !.pc = "while",
                              !.finished_on_entry = FECFinished(verity)]
  /\ VerityPrefsUnchanged

FinalizeLoop ==
  /\ verity.pc = "while"
  /\ verity' = FinalizeTurn(verity)
  /\ VerityPrefsUnchanged

InitVerity ==
  /\ backend = "memory"
  /\ slack = NUL
  /\ payload = NoPayload
  /\ dpc = NoDpc
  /\ optimize = NoOptimize
  /\ subprocess = NoSubprocess
  /\ fs = [root |-> NoDir, tmp |-> NoDir]
  /\ values_ = NoValues
  /\ observers_ = NoObservers
  /\ pc = "idle"
  /\ copy_observers = <<>>
  /\ notified = <<>>
  /\ copyTodo = {}
  /\ call = NoCall
  /\ txn = NoTxn
  /\ ops = 0
  /\ \E hash_left \in 0..MaxSlices, fec_left \in 0..MaxSlices, fail_at \in 0..MaxCalls :
       verity = [pc |-> "ready", hash_left |-> hash_left, fec_left |-> fec_left,
                 slices |-> hash_left + fec_left, fail_at |-> fail_at,
                 calls |-> <<>>, ret |-> "none", finished_on_entry |-> FALSE]

NextVerity == Finalize \/ FinalizeLoop

SpecVerity == InitVerity /\ [][NextVerity]_vars

\* Finalize runs on one thread, which goes on to its next instruction.
SpecVerityFair == SpecVerity /\ WF_vars(NextVerity)

\* ---------------------------------------------------------- Subprocess
\*
\* Subprocess with its child processes.  A child writes to its stdout pipe
\* and exits; the process reaper reaps an exited child and notifies
\* ChildExitedCallback in the same step; the message loop runs
\* OnStdoutReady when the pipe is readable.  A pid is given to one child
\* only.  The exit callbacks do not call into Subprocess.

MaxOutput == 2
MaxChildWrites == 4
PipeCapacity == 2

\* The pids the children get, in this order.
Pids == {1, 2}

STDOUT_FILENO == 1

SIGKILL == 9

ExitStatuses == {0, 1}

NoRecord ==
  [callback |-> FALSE, stdout_str |-> <<>>, stdout_controller |-> FALSE,
   stdout_fd |-> -1]

NoChild == [state |-> "none", status |-> 0, pipe |-> <<>>, written |-> <<>>]

\* OnStdoutReady: what the pipe holds is appended to stdout_str; at the end
\* of file the pipe is watched no more.
OnStdoutReady(sub, pid) ==
  [sub EXCEPT
     !.records[pid].stdout_str = @ \o sub.children[pid].pipe,
     !.records[pid].stdout_controller =
        @ /\ sub.children[pid].state = "running",
     !.children[pid].pipe = <<>>]

\* The record stays in subprocess_records_.
ChildExitedCallback_KeepsRecord(sub, si_pid, si_status) ==
  IF sub.records[si_pid] = NoRecord THEN sub
  ELSE
    LET read == OnStdoutReady(sub, si_pid)
        record == read.records[si_pid]
    IN  [read EXCEPT
           !.callbacks = IF record.callback
                         THEN Append(@, [pid |-> si_pid, return_code |-> si_status,
                                         output |-> record.stdout_str])
                         ELSE @,
           !.records[si_pid].stdout_controller = FALSE]

\* ChildExitedCallback: no record, no effect; else the rest of the output
\* is read, the callback, if any, runs with si_status and the output, and
\* the record is erased.
ChildExitedCallback(sub, si_pid, si_status) ==
  IF sub.records[si_pid] = NoRecord THEN sub
  ELSE
    LET read == OnStdoutReady(sub, si_pid)
        record == read.records[si_pid]
    IN  [read EXCEPT
           !.callbacks = IF record.callback
                         THEN Append(@, [pid |-> si_pid, return_code |-> si_status,
                                         output |-> record.stdout_str])
                         ELSE @,
           !.records[si_pid] = NoRecord]

\* The child after kill(-pid, SIGKILL) and WaitForProcessGroup: a running
\* child is killed; waited says whether waitpid reaped it in time.
KilledChild(child, waited) ==
  LET state == IF child.state = "running" THEN "killed" ELSE child.state
  IN  [child EXCEPT !.state = IF waited /\ state \in {"killed", "exited"}
                              THEN "reaped" ELSE state]

\* The callback is left in the record.
KillExecOn_KeepsCallback(sub, pid, waited) ==
  IF sub.records[pid] = NoRecord THEN sub
  ELSE
    LET killed == [sub EXCEPT !.children[pid] = KilledChild(@, waited),
                              !.killed = @ \cup {pid}]
    IN  ChildExitedCallback(killed, pid, SIGKILL)

\* KillExec: no record, no effect; else the callback is reset, the process
\* group killed and waited for, and ChildExitedCallback called.
KillExecOn(sub, pid, waited) ==
  IF sub.records[pid] = NoRecord THEN sub
  ELSE
    LET killed == [sub EXCEPT !.records[pid].callback = FALSE,
                              !.children[pid] = KilledChild(@, waited),
                              !.killed = @ \cup {pid}]
    IN  ChildExitedCallback(killed, pid, SIGKILL)

GetPipeFd(sub, pid, fd) ==
  IF sub.records[pid] = NoRecord THEN -1
  ELSE IF fd = STDOUT_FILENO THEN sub.records[pid].stdout_fd ELSE -1

SubprocessPrefsUnchanged ==
  UNCHANGED <<backend, slack, payload, dpc, optimize, verity, fs, values_,
              observers_, pc, copy_observers, notified, copyTodo, call, txn, ops>>

\* The record is stored before the launch is known to have failed.
ExecFlagsOn_RecordsFirst(sub, callback, launched) ==
  LET pid == sub.next_pid
      stored == [sub EXCEPT
                   !.records[pid] = [callback |-> callback, stdout_str |-> <<>>,
                                     stdout_controller |-> TRUE,
                                     stdout_fd |-> 2 + pid]]
  IN  IF ~launched THEN [stored EXCEPT !.exec_ret = 0]
      ELSE [stored EXCEPT
              !.exec_ret = pid,
              !.returned = @ \cup {pid},
              !.next_pid = @ + 1,
              !.children[pid] = [NoChild EXCEPT !.state = "running"],
              !.given[pid] = callback]

\* ExecFlags: a process that cannot be launched leaves no record and 0 is
\* returned; else the child is watched, its record stored under its pid
\* and the pid returned.
ExecFlagsOn(sub, callback, launched) ==
  LET pid == sub.next_pid
  IN  IF ~launched THEN [sub EXCEPT !.exec_ret = 0]
      ELSE [sub EXCEPT
              !.exec_ret = pid,
              !.returned = @ \cup {pid},
              !.next_pid = @ + 1,
              !.children[pid] = [NoChild EXCEPT !.state = "running"],
              !.given[pid] = callback,
              !.records[pid] = [callback |-> callback, stdout_str |-> <<>>,
                                stdout_controller |-> TRUE,
                                stdout_fd |-> 2 + pid]]

ExecFlags(callback, launched) ==
  /\ subprocess.next_pid \in Pids
  /\ subprocess' = ExecFlagsOn(subprocess, callback, launched)
  /\ SubprocessPrefsUnchanged

\* The child writes a byte to its stdout.
ChildWrites(pid, byte) ==
  /\ subprocess.children[pid].state = "running"
  /\ Len(subprocess.children[pid].written) < MaxOutput
  /\ subprocess' = [subprocess EXCEPT !.children[pid].pipe = Append(@, byte),
                                      !.children[pid].written = Append(@, byte)]
  /\ SubprocessPrefsUnchanged

ChildExits(pid, status) ==
  /\ subprocess.children[pid].state = "running"
  /\ subprocess' = [subprocess EXCEPT !.children[pid].state = "exited",
                                      !.children[pid].status = status]
  /\ SubprocessPrefsUnchanged

\* The message loop finds the pipe readable: data, or the end of file.
StdoutReady(pid) ==
  /\ subprocess.records[pid] # NoRecord
  /\ subprocess.records[pid].stdout_controller
  /\ \/ subprocess.children[pid].pipe # <<>>
     \/ subprocess.children[pid].state # "running"
  /\ subprocess' = OnStdoutReady(subprocess, pid)
  /\ SubprocessPrefsUnchanged

\* The process reaper reaps the child and runs the callback bound in
\* ExecFlags, with the exit status or the signal that killed the child.
ChildExited(pid) ==
  /\ subprocess.children[pid].state \in {"exited", "killed"}
  /\ LET si_status == IF subprocess.children[pid].state = "exited"
                      THEN subprocess.children[pid].status ELSE SIGKILL
         reaped == [subprocess EXCEPT !.children[pid].state = "reaped",
                                      !.notified = @ \cup {pid}]
     IN  subprocess' = ChildExitedCallback(reaped, pid, si_status)
  /\ SubprocessPrefsUnchanged

KillExec(pid, waited) ==
  /\ subprocess' = [KillExecOn(subprocess, pid, waited)
                      EXCEPT !.kill_calls = @ \cup {pid},
                             !.kill_since =
                                @ \cup (subprocess.returned \cap {pid})]
  /\ SubprocessPrefsUnchanged

InitSubprocess ==
  /\ backend = "memory"
  /\ slack = NUL
  /\ payload = NoPayload
  /\ dpc = NoDpc
  /\ optimize = NoOptimize
  /\ verity = NoVerity
  /\ fs = [root |-> NoDir, tmp |-> NoDir]
  /\ values_ = NoValues
  /\ observers_ = NoObservers
  /\ pc = "idle"
  /\ copy_observers = <<>>
  /\ notified = <<>>
  /\ copyTodo = {}
  /\ call = NoCall
  /\ txn = NoTxn
  /\ ops = 0
  /\ subprocess = [pc |-> "ready", next_pid |-> 1,
                   records |-> [pid \in Pids |-> NoRecord],
                   children |-> [pid \in Pids |-> NoChild],
                   callbacks |-> <<>>,
                   given |-> [pid \in Pids |-> FALSE],
                   killed |-> {}, kill_calls |-> {}, notified |-> {},
                   returned |-> {}, kill_since |-> {}, exec_ret |-> -1]

NextSubprocess ==
  \/ \E callback \in BOOLEAN, launched \in BOOLEAN : ExecFlags(callback, launched)
  \/ \E pid \in Pids, byte \in {"o"} : ChildWrites(pid, byte)
  \/ \E pid \in Pids, status \in ExitStatuses : ChildExits(pid, status)
  \/ \E pid \in Pids : StdoutReady(pid)
  \/ \E pid \in Pids : ChildExited(pid)
  \/ \E pid \in Pids, waited \in BOOLEAN : KillExec(pid, waited)

SpecSubprocess == InitSubprocess /\ [][NextSubprocess]_vars

\* ------------------------------ Subprocess, with callbacks that re-enter
\*
\* ChildExitedCallback in three parts: up to the call of the exit callback
\* (lines 141-164), the callback itself, which may call KillExec before it
\* returns, and the rest (lines 170-173).  The message loop runs nothing
\* else meanwhile; the children go on writing and exiting.  events are the
\* statements the ChildExitedCallback the process reaper called last has
\* run.

UntilCallback == <<"OnStdoutReady", "stdout_controller.reset">>

AfterCallback == <<"proc.Release", "proc.Reset", "erase">>

\* The callback runs before the rest of the output is read.
ChildExitedCallbackBegin_CallbackFirst(sub, si_pid, si_status) ==
  IF sub.records[si_pid] = NoRecord THEN [sub EXCEPT !.events = <<>>]
  ELSE
    LET record == sub.records[si_pid]
        read == OnStdoutReady(sub, si_pid)
    IN  IF record.callback
        THEN [read EXCEPT
                !.records[si_pid].stdout_controller = FALSE,
                !.callbacks = Append(@, [pid |-> si_pid, return_code |-> si_status,
                                         output |-> record.stdout_str]),
                !.events = UntilCallback \o <<"callback.Run">>,
                !.running = si_pid,
                !.pc = "callback"]
        ELSE [read EXCEPT !.records[si_pid] = NoRecord,
                          !.events = UntilCallback \o AfterCallback]

\* Lines 141-164: no record, nothing done; else the rest of the output is
\* read and the pipe watched no more, and the callback, if there is one, is
\* called with si_status and the output.  Without a callback the rest of
\* the function follows at once.
ChildExitedCallbackBegin(sub, si_pid, si_status) ==
  IF sub.records[si_pid] = NoRecord THEN [sub EXCEPT !.events = <<>>]
  ELSE
    LET read == OnStdoutReady(sub, si_pid)
        record == read.records[si_pid]
    IN  IF record.callback
        THEN [read EXCEPT
                !.records[si_pid].stdout_controller = FALSE,
                !.callbacks = Append(@, [pid |-> si_pid, return_code |-> si_status,
                                         output |-> record.stdout_str]),
                !.events = UntilCallback \o <<"callback.Run">>,
                !.running = si_pid,
                !.pc = "callback"]
        ELSE [read EXCEPT !.records[si_pid] = NoRecord,
                          !.events = UntilCallback \o AfterCallback]

\* Lines 170-173 after the callback has returned: record->proc is released
\* and reset and pid_record erased.  When the callback has had the record
\* erased, record and pid_record dangle: the behaviour is undefined, the
\* process dies or goes on.
ChildExitedCallbackEnd(sub, outcome) ==
  LET done == [sub EXCEPT !.events = @ \o AfterCallback, !.running = 0]
  IN  IF sub.records[sub.running] = NoRecord
      THEN [done EXCEPT !.accessed_erased = TRUE, !.erased_twice = TRUE,
                        !.pc = IF outcome = "dies" THEN "undefined" ELSE "loop"]
      ELSE [done EXCEPT !.records[sub.running] = NoRecord, !.pc = "loop"]

LoopExecFlags(callback) ==
  /\ subprocess.pc = "loop"
  /\ ExecFlags(callback, TRUE)

LoopStdoutReady(pid) ==
  /\ subprocess.pc = "loop"
  /\ StdoutReady(pid)

LoopKillExec(pid, waited) ==
  /\ subprocess.pc = "loop"
  /\ KillExec(pid, waited)

\* The process reaper reaps the child and calls ChildExitedCallback.
LoopChildExited(pid) ==
  /\ subprocess.pc = "loop"
  /\ subprocess.children[pid].state \in {"exited", "killed"}
  /\ LET si_status == IF subprocess.children[pid].state = "exited"
                      THEN subprocess.children[pid].status ELSE SIGKILL
         reaped == [subprocess EXCEPT !.children[pid].state = "reaped",
                                      !.notified = @ \cup {pid}]
     IN  subprocess' = ChildExitedCallbackBegin(reaped, pid, si_status)
  /\ SubprocessPrefsUnchanged

\* The exit callback: it returns, after a call of KillExec(target) when
\* target is a pid.
CallbackRuns(target, waited) ==
  /\ subprocess.pc = "callback"
  /\ subprocess' =
       [(IF target = 0 THEN subprocess ELSE KillExecOn(subprocess, target, waited))
          EXCEPT !.pc = "returned", !.reentered = target]
  /\ SubprocessPrefsUnchanged

CallbackReturned(outcome) ==
  /\ subprocess.pc = "returned"
  /\ subprocess' = ChildExitedCallbackEnd(subprocess, outcome)
  /\ SubprocessPrefsUnchanged

InitReenter ==
  /\ backend = "memory"
  /\ slack = NUL
  /\ payload = NoPayload
  /\ dpc = NoDpc
  /\ optimize = NoOptimize
  /\ verity = NoVerity
  /\ fs = [root |-> NoDir, tmp |-> NoDir]
  /\ values_ = NoValues
  /\ observers_ = NoObservers
  /\ pc = "idle"
  /\ copy_observers = <<>>
  /\ notified = <<>>
  /\ copyTodo = {}
  /\ call = NoCall
  /\ txn = NoTxn
  /\ ops = 0
  /\ subprocess = [pc |-> "loop", next_pid |-> 1,
                   records |-> [pid \in Pids |-> NoRecord],
                   children |-> [pid \in Pids |-> NoChild],
                   callbacks |-> <<>>,
                   given |-> [pid \in Pids |-> FALSE],
                   killed |-> {}, kill_calls |-> {}, notified |-> {},
                   returned |-> {}, kill_since |-> {}, exec_ret |-> -1,
                   running |-> 0, reentered |-> 0, events |-> <<>>,
                   accessed_erased |-> FALSE, erased_twice |-> FALSE]

NextReenter ==
  \/ \E callback \in BOOLEAN : LoopExecFlags(callback)
  \/ \E pid \in Pids, byte \in {"o"} : ChildWrites(pid, byte)
  \/ \E pid \in Pids, status \in ExitStatuses : ChildExits(pid, status)
  \/ \E pid \in Pids : LoopStdoutReady(pid)
  \/ \E pid \in Pids : LoopChildExited(pid)
  \/ \E pid \in Pids, waited \in BOOLEAN : LoopKillExec(pid, waited)
  \/ \E target \in Pids \cup {0}, waited \in BOOLEAN : CallbackRuns(target, waited)
  \/ \E outcome \in {"dies", "goes on"} : CallbackReturned(outcome)

SpecReenter == InitReenter /\ [][NextReenter]_vars

\* ------------------------------------- Subprocess::SynchronousExecFlags

\* What a child does: a sequence of writes of one block each to its stdout
\* or its stderr, and then it exits, which closes both.
STDERR_FILENO == 2

ChildPrograms ==
  UNION {[1..n -> {STDOUT_FILENO, STDERR_FILENO}] : n \in 0..MaxChildWrites}

\* LaunchProcess(cmd, flags, {STDERR_FILENO}, &proc): a pipe for stderr and
\* one for stdout, and proc->Start().
SyncLaunchProcess(launched) ==
  /\ subprocess.pc = "launch"
  /\ subprocess' = IF launched
                   THEN [subprocess EXCEPT !.pc = "read_stdout", !.alive = TRUE]
                   ELSE [subprocess EXCEPT !.pc = "returned", !.ret = "false"]
  /\ SubprocessPrefsUnchanged

\* read(fd, buffer, 32K) of the parent, which blocks while the pipe is empty
\* and its write end is open: what is in the pipe, or 0 at end of file.
PipeReadable(sub, fd) == sub.pipe[fd] > 0 \/ ~sub.alive

\* The first half of a turn of the loop: the read of stdout, unless
\* stdout_closed.
ReadStdout ==
  /\ subprocess.pc = "read_stdout"
  /\ IF subprocess.stdout_closed
     THEN subprocess' = [subprocess EXCEPT !.pc = "read_stderr"]
     ELSE /\ PipeReadable(subprocess, STDOUT_FILENO)
          /\ subprocess' =
               IF subprocess.pipe[STDOUT_FILENO] > 0
               THEN [subprocess EXCEPT !.pc = "read_stderr",
                                       !.stdout_str = @ + subprocess.pipe[STDOUT_FILENO],
                                       !.pipe[STDOUT_FILENO] = 0]
               ELSE [subprocess EXCEPT !.pc = "read_stderr",
                                       !.stdout_closed = TRUE]
  /\ SubprocessPrefsUnchanged

\* The second half: the read of stderr, unless stderr_closed, and the test
\* of the loop.
ReadStderr ==
  /\ subprocess.pc = "read_stderr"
  /\ LET after ==
           IF subprocess.stderr_closed THEN subprocess
           ELSE IF subprocess.pipe[STDERR_FILENO] > 0
           THEN [subprocess EXCEPT !.stderr_str = @ + subprocess.pipe[STDERR_FILENO],
                                   !.pipe[STDERR_FILENO] = 0]
           ELSE [subprocess EXCEPT !.stderr_closed = TRUE]
     IN  /\ subprocess.stderr_closed \/ PipeReadable(subprocess, STDERR_FILENO)
         /\ subprocess' =
              [after EXCEPT !.pc = IF after.stdout_closed /\ after.stderr_closed
                                   THEN "wait" ELSE "read_stdout"]
  /\ SubprocessPrefsUnchanged

\* proc.Wait() and the return.
SyncWait ==
  /\ subprocess.pc = "wait"
  /\ ~subprocess.alive
  /\ subprocess' = [subprocess EXCEPT !.pc = "returned", !.ret = "true"]
  /\ SubprocessPrefsUnchanged

\* The child writes its next block; the write blocks while the pipe is full.
SyncChildWrites ==
  /\ subprocess.pc \notin {"launch", "returned"}
  /\ subprocess.alive
  /\ subprocess.program # <<>>
  /\ LET fd == Head(subprocess.program)
     IN  /\ subprocess.pipe[fd] < PipeCapacity
         /\ subprocess' = [subprocess EXCEPT !.pipe[fd] = @ + 1,
                                             !.program = Tail(@)]
  /\ SubprocessPrefsUnchanged

\* The child has written everything and exits.
SyncChildExits ==
  /\ subprocess.pc \notin {"launch", "returned"}
  /\ subprocess.alive
  /\ subprocess.program = <<>>
  /\ subprocess' = [subprocess EXCEPT !.alive = FALSE]
  /\ SubprocessPrefsUnchanged

InitSync ==
  /\ backend = "memory"
  /\ slack = NUL
  /\ payload = NoPayload
  /\ dpc = NoDpc
  /\ optimize = NoOptimize
  /\ verity = NoVerity
  /\ fs = [root |-> NoDir, tmp |-> NoDir]
  /\ values_ = NoValues
  /\ observers_ = NoObservers
  /\ pc = "idle"
  /\ copy_observers = <<>>
  /\ notified = <<>>
  /\ copyTodo = {}
  /\ call = NoCall
  /\ txn = NoTxn
  /\ ops = 0
  /\ \E program \in ChildPrograms :
       subprocess = [pc |-> "launch", ret |-> "none", alive |-> FALSE,
                     program |-> program, script |-> program,
                     pipe |-> [fd \in {STDOUT_FILENO, STDERR_FILENO} |-> 0],
                     stdout_closed |-> FALSE, stderr_closed |-> FALSE,
                     stdout_str |-> 0, stderr_str |-> 0]

SyncParent ==
  \/ \E launched \in BOOLEAN : SyncLaunchProcess(launched)
  \/ ReadStdout
  \/ ReadStderr
  \/ SyncWait

SyncChild ==
  \/ SyncChildWrites
  \/ SyncChildExits

NextSync == SyncParent \/ SyncChild

SpecSync == InitSync /\ [][NextSync]_vars

\* The scheduler runs the parent when it is not blocked in a read or in
\* Wait, and the child when it is not blocked in a write.
SpecSyncFair == SpecSync /\ WF_vars(SyncParent) /\ WF_vars(SyncChild)

\* ------------------------------------------------------------ the claims

\* What GetString shows now, key by key.
Shown == Content(backend, fs, values_)

\* C1: when the process crashes inside SubmitTransaction (after SwapPrefs has
\* deleted <root>) and the store is re-opened with Init, the content is the
\* complete pre-transaction content or the complete transaction content
\* (the pre-transaction content with every write of the transaction applied).
C1_CrashInSubmitIsAllOrNothing ==
  (call.op = "init" /\ call.ret = "true" /\ call.from = "submitting")
    => Shown \in {txn.pre, txn.exp}

\* C2: a crash after StartTransaction was called and before SubmitTransaction
\* is called (in the middle of the copy, or after writes inside the
\* transaction), followed by Init, leaves the content the store had before
\* StartTransaction.
C2_CrashBeforeSubmitKeepsContent ==
  (call.op = "init" /\ call.ret = "true" /\ call.from \in {"starting", "open"})
    => Shown = txn.pre

\* C2's case: Init after a crash in the middle of the copy, with one file
\* copied to <root>_tmp and another one not yet.
C2_Witness ==
  /\ call.op = "init"
  /\ call.ret = "true"
  /\ call.from = "starting"
  /\ \E k1, k2 \in Keys :
       /\ call.tmpPre[k1] # Absent
       /\ txn.pre[k2] # Absent /\ DirName(k2) = <<>> /\ call.tmpPre[k2] = Absent

\* C3: while a transaction is open, <root> keeps its pre-begin content and
\* the writes go to <root>_tmp, where GetString / Exists of the same process
\* see them; after CancelTransaction every read shows the pre-begin content.
C3_WritesGoToTmpOnly ==
  /\ txn.phase = "open" => TreeContent(fs.root) = txn.pre
  /\ (txn.phase = "open" /\ pc = "idle") =>
       \A k \in txn.written :
         /\ StorageGetKey(backend, fs, values_, k) = txn.exp[k]
         /\ TreeContent(fs.tmp)[k] = txn.exp[k]
         /\ StorageKeyExists(backend, fs, values_, k) = (txn.exp[k] # Absent)
  /\ (call.op = "cancel" /\ call.from = "open") => Shown = txn.pre

\* C3's case: inside a transaction a key was set to a value other than the
\* committed one.
C3_Witness ==
  /\ txn.phase = "open"
  /\ call.op = "set"
  /\ call.ret = "true"
  /\ txn.pre[call.key] = <<"x">>
  /\ call.text = <<"y">>

\* C4: right after a successful StartTransaction every key present before it
\* (namespaced keys included) reads with the same value; and after a
\* successful SubmitTransaction the store is the pre-begin content overridden
\* by the writes of the transaction, no untouched key lost.
C4_TransactionCoversWholeStore ==
  /\ (call.op = "start" /\ call.ret = "true") => Shown = txn.pre
  /\ (call.op = "submit" /\ call.ret = "true" /\ call.from = "open")
       => Shown = txn.exp

C6_NotifyOnlyAfterSuccess ==
  call.op \in {"set", "delete"} =>
    /\ call.ret = "false" => notified = <<>>
    /\ pc = "notify" => call.ret = "pending"
    /\ \A i \in 1..Len(notified) :
         /\ notified[i].key = call.key
         /\ notified[i].ev = call.op
         /\ \E j \in 1..Len(call.reg) : call.reg[j] = notified[i].obs
    /\ (pc = "notify" \/ notified # <<>>) =>
         StorageGetKey(backend, fs, values_, call.key)
           = (IF call.op = "set" THEN call.text ELSE Absent)

\* C6's case: a set failed in the storage while the key had observers.
C6_Witness ==
  /\ call.op = "set"
  /\ call.ret = "false"
  /\ call.fault
  /\ call.reg # <<>>
  /\ notified = <<>>

\* C7: the notification runs over a copy of the observer list: the observers
\* invoked for a write are exactly those registered for the key when the
\* write succeeded, each registration once and in order, whatever the
\* callbacks add to or remove from the list meanwhile.
C7_NotifiesSnapshotOnce ==
  call.op \in {"set", "delete"} =>
    /\ pc = "notify" =>
         /\ Len(notified) <= Len(call.reg)
         /\ \A i \in 1..Len(notified) : notified[i].obs = call.reg[i]
    /\ (pc = "idle" /\ call.ret = "true") =>
         /\ Len(notified) = Len(call.reg)
         /\ \A i \in 1..Len(notified) : notified[i].obs = call.reg[i]

\* C7's case: a write with two observers returned, and the first callback
\* removed the other observer (or itself) from the list.
C7_Witness ==
  /\ call.op = "set"
  /\ call.ret = "true"
  /\ pc = "idle"
  /\ Len(call.reg) = 2
  /\ call.reg[1] # call.reg[2]
  /\ Len(notified) = 2
  /\ Len(observers_[call.key]) < 2

C9_InvalidKeyRejected ==
  (call.op \in {"get", "set", "exists", "delete", "sub_keys"} /\ call.key \in BadKeys) =>
    /\ call.ret = "false"
    /\ pc # "notify"
    /\ notified = <<>>
    /\ call.op \in {"set", "delete"} =>
         StorageGetKey(backend, fs, values_, call.key) = call.old

C10_WitnessInTransaction ==
  /\ call.op = "delete_ns"
  /\ backend = "file"
  /\ call.inTxn
  /\ call.out = <<Ns_a>>
  /\ call.pre[Key_a_k] # Absent
  /\ Shown[Key_a_k] = call.pre[Key_a_k]

\* C11 as stated: GetSubKeys(ns) returns exactly the stored keys whose path
\* begins with ns, none missing, no others, each once, for every store
\* content; the prefix range of the memory store is the set of keys with the
\* prefix ns, also when the map holds keys shorter than ns.
C11_GetSubKeysReturnsPrefixedKeys ==
  (call.op = "sub_keys" /\ call.key \in Namespaces) =>
    /\ call.ret = "true"
    /\ Range(call.out) = {k \in Keys : Shown[k] # Absent /\ IsPrefix(call.key, k)}
    /\ Cardinality(Range(call.out)) = Len(call.out)

\* C12 as stated: while a transaction is open on the file store,
\* GetSubKeys(ns) returns the keys with prefix ns that the transaction's view
\* holds, those created inside the transaction included and those deleted
\* inside it excluded; and Delete(key, namespaces) inside a transaction
\* removes the namespaced keys "<ns>/key" as well.
C12_GetSubKeysReadsTransaction ==
  /\ (call.op = "sub_keys" /\ call.key \in Namespaces
        /\ backend = "file" /\ txn.phase = "open") =>
       /\ call.ret = "true"
       /\ \A k \in Keys :
            (\E i \in 1..Len(call.out) : call.out[i] = k)
              <=> (IsPrefix(call.key, k) /\ StorageGetKey(backend, fs, values_, k) # Absent)
  /\ (call.op = "delete_ns" /\ backend = "file" /\ txn.phase = "open") =>
       \A i \in 1..Len(call.out) :
         LET q == call.out[i] \o <<kKeySeparator>> \o call.key
         IN  q \in Keys => StorageGetKey(backend, fs, values_, q) = Absent

\* C13: SetInt64(k, v) followed by GetInt64(k) returns v, for negative
\* values, the minimum and the maximum as well, and the stored text is the
\* decimal representation of v; SetBoolean(k, b) followed by GetBoolean(k)
\* returns b, and the stored text is the literal true or false.
C13_TypedRoundTrip ==
  /\ (call.op = "get_int64" /\ call.setType = "int64") =>
       /\ call.ret = "true"
       /\ call.val = call.setVal
       /\ LET digits == IF call.setVal < 0 THEN Tail(call.text) ELSE call.text
          IN  /\ (call.setVal < 0) = (Head(call.text) = "-")
              /\ digits # <<>>
              /\ \A i \in 1..Len(digits) : isdigit(digits[i])
              /\ Len(digits) > 1 => digits[1] # "0"
              /\ DecimalToNat(digits) = (IF call.setVal < 0 THEN -call.setVal ELSE call.setVal)
  /\ (call.op = "get_bool" /\ call.setType = "bool") =>
       /\ call.ret = "true"
       /\ call.flag = call.setFlag
       /\ call.text = (IF call.setFlag THEN <<"t", "r", "u", "e">>
                                       ELSE <<"f", "a", "l", "s", "e">>)

\* C13's case: the minimum was set and read back.
C13_Witness ==
  /\ call.op = "get_int64"
  /\ call.setType = "int64"
  /\ call.setVal = Int64Min
  /\ call.val = Int64Min
  /\ call.ret = "true"

\* C14 as stated: on set, get, exists, delete and sub_keys with valid keys
\* and no I/O fault, the file store and the memory store return the same
\* results (sub_keys as sets) and hold the same key-to-value mapping, also
\* when both a key "a" and a key "a/b" are set.
C14_StoresAreEquivalent ==
  backend = "pair" =>
    /\ call.ret = call.memRet
    /\ call.text = call.memText \/ call.op = "set"
    /\ Range(call.out) = Range(call.memOut)
    /\ TreeContent(fs.root) = values_

\* The operations that carry a data blob, in manifest order.
BlobOperations(parts) ==
  SelectSeq(AllOperations(parts), LAMBDA op : op.has_data_offset)

\* The sum of data_length over the first n operations of aops.
RECURSIVE SumDataLength(_, _)
SumDataLength(aops, n) ==
  IF n = 0 THEN 0 ELSE SumDataLength(aops, n - 1) + aops[n].data_length

\* A payload file has been written.
PayloadWritten == payload.pc = "done" /\ payload.ret = "true"

\* C15 as stated: in a signed payload the payload signature blob is at byte
\* offset metadata_size + signatures_offset of the file and has length
\* signatures_size.
C15_SignatureAtMetadataSizePlusOffset ==
  (PayloadWritten /\ payload.signed) =>
    /\ payload.signature_at
         = payload.metadata_size_out + payload.manifest_.signatures_offset
    /\ Len(payload.file) - payload.signature_at = payload.manifest_.signatures_size

\* C15: in a signed payload the payload signature blob is at byte offset
\* metadata_size + metadata signature length + signatures_offset of the file
\* (signatures_offset counts from the start of the data blobs, which follow
\* the metadata signature), has length signatures_size and ends the file.
C15_SignatureBehindMetadataSignature ==
  (PayloadWritten /\ payload.signed) =>
    LET at == payload.metadata_size_out + Len(payload.metadata_signature)
                + payload.manifest_.signatures_offset
    IN  /\ payload.manifest_.has_signatures
        /\ payload.signature_at = at
        /\ Len(payload.signature) = payload.manifest_.signatures_size
        /\ Len(payload.file) = at + payload.manifest_.signatures_size
        /\ SubSeq(payload.file, at + 1, Len(payload.file)) = payload.signature
        /\ payload.blobs_at + payload.manifest_.signatures_offset = at

\* C15's case: a signed payload with data blobs of two partitions.
C15_Witness ==
  /\ PayloadWritten
  /\ payload.signed
  /\ Len(payload.part_vec_) = 2
  /\ payload.manifest_.signatures_offset > 2
  /\ payload.signature # <<>>

C17_PayloadLayout ==
  PayloadWritten =>
    LET f == payload.file
        m == SerializeToString(payload.manifest_)
        ms == payload.metadata_signature
        blobs == BlobsOf(AllOperations(payload.part_vec_))
        a == 24 + Len(m)
        b == a + Len(ms)
        c == b + Len(blobs)
    IN  /\ SubSeq(f, 1, 4) = <<67, 114, 65, 85>>
        /\ SubSeq(f, 5, 11) = <<0, 0, 0, 0, 0, 0, 0>>
        /\ f[12] = payload.major_version_
        /\ SubSeq(f, 13, 19) = <<0, 0, 0, 0, 0, 0, 0>>
        /\ f[20] = Len(m)
        /\ SubSeq(f, 21, 23) = <<0, 0, 0>>
        /\ f[24] = Len(ms)
        /\ SubSeq(f, 25, a) = m
        /\ SubSeq(f, a + 1, b) = ms
        /\ SubSeq(f, b + 1, c) = blobs
        /\ SubSeq(f, c + 1, Len(f)) = payload.signature
        /\ Len(f) = c + Len(payload.signature)
        /\ Len(ms) = (IF payload.signed THEN SignatureBlobLength ELSE 0)
        /\ Len(payload.signature) = Len(ms)

\* C17's case: a signed payload of two partitions whose blobs were reordered.
C17_Witness ==
  /\ PayloadWritten
  /\ payload.signed
  /\ Len(payload.part_vec_) = 2
  /\ payload.data_blobs # payload.ordered_blobs
  /\ Len(payload.file) > 40

\* C18: the metadata size given out is 4 + 8 + 8 + 4 + the length of the
\* serialized manifest; it does not count the metadata signature, and it is
\* the offset at which the metadata signature, or the first data blob of an
\* unsigned payload, starts.
C18_MetadataSize ==
  PayloadWritten =>
    /\ payload.metadata_size_out = 4 + 8 + 8 + 4 + Len(payload.serialized_manifest)
    /\ payload.metadata_size_out = payload.manifest_at + Len(payload.serialized_manifest)
    /\ payload.metadata_size_out = payload.metadata_signature_at
    /\ ~payload.signed => payload.metadata_size_out = payload.blobs_at
    /\ payload.signed =>
         payload.blobs_at = payload.metadata_size_out + Len(payload.metadata_signature)

\* C18's case: a signed payload, whose metadata signature is not counted.
C18_Witness ==
  /\ PayloadWritten
  /\ payload.signed
  /\ payload.metadata_signature # <<>>
  /\ payload.blobs_at > payload.metadata_size_out
  /\ Len(payload.serialized_manifest) > 4

\* UpdatePartitionMetadata or PreparePartitionsForUpdate has returned.
DpcReturned == dpc.pc = "done" /\ dpc.op \in {"update", "prepare"}

\* The sizes requested for the target slot, partitions or group maximum
\* sizes, add up to more than half of the size of super.
OverHalfOfSuper ==
  \/ 2 * TotalPartitionSize(dpc.update) > dpc.super_size
  \/ 2 * TotalGroupSize(dpc.update) > dpc.super_size

\* The space the partitions of the other slots take in the metadata the
\* update starts from.
UsedByOtherSlots == UsedSpace(DeleteGroupsWithSuffix(dpc.metadata, dpc.target))

SomeGroupOverMaximum ==
  \E g \in GroupNames :
    /\ dpc.update.groups[g] # NoGroup
    /\ GroupUsed(dpc.update, g) > dpc.update.groups[g]

\* C20 as stated: UpdatePartitionMetadata refuses when the partitions of a
\* group add up to more than the group's maximum size in the update
\* manifest, and accepts every resize in which no group's do.
C20_AcceptsEveryResizeWithinGroups ==
  (DpcReturned /\ dpc.op = "update") =>
    /\ SomeGroupOverMaximum => dpc.ret = "false"
    /\ ~SomeGroupOverMaximum => dpc.ret = "true"

\* C20: UpdatePartitionMetadata refuses when the partitions of a group add
\* up to more than the group's maximum size in the update manifest; it
\* accepts a resize in which no group's do if also the group maximum sizes
\* add up to at most half of super and super has room for the partitions
\* beside those of the other slot; then the target slot has the manifest's
\* groups and partitions and the other slot is as before.
C20_AcceptsResizeWithinGroupsAndSuper ==
  (DpcReturned /\ dpc.op = "update") =>
    LET slot_fits == 2 * TotalGroupSize(dpc.update) <= dpc.super_size
        super_fits == UsedByOtherSlots + TotalPartitionSize(dpc.update)
                        <= dpc.super_size
    IN  /\ SomeGroupOverMaximum => dpc.ret = "false"
        /\ (~SomeGroupOverMaximum /\ slot_fits /\ super_fits) =>
             /\ dpc.ret = "true"
             /\ \A g \in GroupNames :
                  dpc.builder.groups[<<g, dpc.target>>] = dpc.update.groups[g]
             /\ \A p \in PartitionNames :
                  dpc.builder.parts[<<p, dpc.target>>] = dpc.update.parts[p]
             /\ \A slot \in Slots \ {dpc.target} :
                  /\ \A g \in GroupNames :
                       dpc.builder.groups[<<g, slot>>] = dpc.metadata.groups[<<g, slot>>]
                  /\ \A p \in PartitionNames :
                       dpc.builder.parts[<<p, slot>>] = dpc.metadata.parts[<<p, slot>>]

\* C20's case: the group oem grows from 2 GiB to 3 GiB and its partition
\* vendor to the full size of the group; accepted.
C20_Witness ==
  /\ DpcReturned
  /\ dpc.op = "update"
  /\ dpc.source # dpc.target
  /\ dpc.metadata = GroupTestMetadata(dpc.source, dpc.target)
  /\ dpc.update.groups["oem"] = 3 * GiB
  /\ dpc.update.parts["vendor"] = [group |-> "oem", size |-> 3 * GiB]
  /\ dpc.builder.groups[<<"oem", dpc.target>>] = 3 * GiB
  /\ dpc.builder.parts[<<"vendor", dpc.target>>].size = 3 * GiB
  /\ dpc.ret = "true"

\* A group's partitions exceed its maximum size; refused.
C20_WitnessRefused ==
  /\ DpcReturned
  /\ dpc.op = "update"
  /\ SomeGroupOverMaximum
  /\ 2 * TotalGroupSize(dpc.update) <= dpc.super_size
  /\ dpc.ret = "false"

\* The partitions and groups of a slot in metadata.
PartitionsOfSlot(metadata, slot) ==
  {p \in PartitionNames : metadata.parts[<<p, slot>>] # NoPartition}

GroupsOfSlot(metadata, slot) ==
  {g \in GroupNames : metadata.groups[<<g, slot>>] # NoGroup}

\* C21: when UpdatePartitionMetadata succeeds, the target slot's partitions
\* in the metadata are exactly the manifest's, with exactly the sizes asked
\* for (grown, shrunk or added), the target slot's partitions and groups
\* that the manifest does not have are gone, and every partition of the
\* source slot has the name and size it had.
C21_TargetSlotIsTheManifest ==
  (DpcReturned /\ dpc.op = "update" /\ dpc.ret = "true") =>
    /\ PartitionsOfSlot(dpc.builder, dpc.target) = PartitionsOfManifest(dpc.update)
    /\ \A p \in PartitionsOfManifest(dpc.update) :
         dpc.builder.parts[<<p, dpc.target>>].size = dpc.update.parts[p].size
    /\ GroupsOfSlot(dpc.builder, dpc.target)
         = {g \in GroupNames : dpc.update.groups[g] # NoGroup}
    /\ PartitionsOfSlot(dpc.builder, dpc.source) = PartitionsOfSlot(dpc.metadata, dpc.source)
    /\ \A p \in PartitionNames :
         dpc.builder.parts[<<p, dpc.source>>].size
           = dpc.metadata.parts[<<p, dpc.source>>].size

\* C21's case: the target's system grows from 2 GiB to 3 GiB and its vendor,
\* absent from the manifest, is removed; the source slot has partitions.
C21_Witness ==
  /\ DpcReturned
  /\ dpc.op = "update"
  /\ dpc.ret = "true"
  /\ dpc.metadata.parts[<<"system", dpc.target>>].size = 2 * GiB
  /\ dpc.metadata.parts[<<"vendor", dpc.target>>].size = GiB
  /\ dpc.update.parts["system"].size = 3 * GiB
  /\ dpc.update.parts["vendor"] = NoPartition
  /\ dpc.builder.parts[<<"system", dpc.target>>].size = 3 * GiB
  /\ dpc.builder.parts[<<"vendor", dpc.target>>] = NoPartition
  /\ dpc.builder.parts[<<"system", dpc.source>>].size = 2 * GiB

\* Partitions are added to metadata that has none, and a group is removed.
C21_WitnessAdded ==
  /\ DpcReturned
  /\ dpc.op = "update"
  /\ dpc.ret = "true"
  /\ \/ /\ dpc.metadata = EmptyMetadata
        /\ PartitionsOfSlot(dpc.builder, dpc.target) = PartitionNames
     \/ /\ dpc.metadata = GroupTestMetadata(dpc.source, dpc.target)
        /\ "oem" \notin GroupsOfSlot(dpc.builder, dpc.target)

\* C22: PreparePartitionsForUpdate fails whenever the target slot is the
\* source slot, whatever the manifest, also an empty one; no metadata is
\* stored, no device unmapped and no snapshot call made.
C22_CurrentSlotRefused ==
  (DpcReturned /\ dpc.op = "prepare" /\ dpc.source = dpc.target) =>
    /\ dpc.ret = "false"
    /\ ~dpc.stored
    /\ dpc.stored_metadata = EmptyMetadata
    /\ dpc.builder = EmptyMetadata
    /\ dpc.unmapped = {}
    /\ dpc.calls = <<>>

\* C22's case: the manifest without partitions, on the current slot.
C22_Witness ==
  /\ DpcReturned
  /\ dpc.op = "prepare"
  /\ dpc.source = dpc.target
  /\ dpc.update = PartitionSizesToManifest(-1, -1)
  /\ ~dpc.virtual_ab
  /\ dpc.ret = "false"

C26_SnapshotsFirst ==
  (DpcReturned /\ dpc.op = "prepare" /\ dpc.virtual_ab /\ dpc.source # dpc.target) =>
    /\ SubSeq(dpc.calls, 1, 2) = <<"BeginUpdate", "CreateUpdateSnapshots">>
    /\ dpc.snapshots = "ok" =>
         /\ dpc.calls = <<"BeginUpdate", "CreateUpdateSnapshots">>
         /\ dpc.ret = "true"
         /\ dpc.required_size = 0
         /\ ~dpc.stored
    /\ (dpc.snapshots = "no_space" /\ ~dpc.recovery) =>
         /\ dpc.calls = <<"BeginUpdate", "CreateUpdateSnapshots">>
         /\ dpc.ret = "false"
         /\ dpc.required_size = GiB
         /\ ~dpc.stored
    /\ (dpc.snapshots = "no_space" /\ dpc.recovery) =>
         /\ dpc.calls = <<"BeginUpdate", "CreateUpdateSnapshots", "CancelUpdate",
                          "PrepareDynamicPartitionsForUpdate">>
         /\ dpc.delete_source
         /\ dpc.ret = "true" <=> dpc.stored
         /\ dpc.ret = "true" => dpc.required_size = 0
         /\ dpc.stored => PartitionsOfSlot(dpc.stored_metadata, dpc.source) = {}

\* C26's case: RecoveryErrorShouldDeleteSource, super with room for one slot.
C26_Witness ==
  /\ DpcReturned
  /\ dpc.op = "prepare"
  /\ dpc.virtual_ab
  /\ dpc.recovery
  /\ dpc.snapshots = "no_space"
  /\ dpc.super_size = kDefaultGroupSize + 1
  /\ dpc.metadata = SuffixSizesMetadata(dpc.source, dpc.target, 2 * GiB, GiB)
  /\ dpc.update = PartitionSizesToManifest(3 * GiB, GiB)
  /\ dpc.ret = "true"
  /\ dpc.required_size = 0
  /\ dpc.stored

\* The snapshots cannot be created outside recovery.
C26_WitnessNoSpace ==
  /\ DpcReturned
  /\ dpc.op = "prepare"
  /\ dpc.virtual_ab
  /\ ~dpc.recovery
  /\ dpc.snapshots = "no_space"
  /\ dpc.ret = "false"
  /\ dpc.required_size = GiB

\* The blocks of a list of extents, in order.
RECURSIVE ExpandExtents(_)
ExpandExtents(extents) ==
  IF extents = <<>> THEN <<>>
  ELSE [i \in 1..Head(extents).num_blocks |-> Head(extents).start_block + i - 1]
         \o ExpandExtents(Tail(extents))

\* The blocks of a at the positions where a and b differ.
RECURSIVE DifferingBlocks(_, _)
DifferingBlocks(a, b) ==
  IF a = <<>> THEN <<>>
  ELSE (IF Head(a) # Head(b) THEN <<Head(a)>> ELSE <<>>)
         \o DifferingBlocks(Tail(a), Tail(b))

\* No extent continues the one before it, and none is empty.
Merged(extents) ==
  /\ \A i \in 1..Len(extents) : extents[i].num_blocks > 0
  /\ \A i \in 1..(Len(extents) - 1) :
       extents[i].start_block + extents[i].num_blocks # extents[i + 1].start_block

OptimizeReturned == optimize.pc = "done"

C23_WitnessOptimized ==
  /\ OptimizeReturned
  /\ optimize.operation.src_extents = <<Extent(1, 1)>>
  /\ optimize.operation.dst_extents = <<Extent(1, 1)>>
  /\ optimize.partition_name = "foo"
  /\ optimize.ret = "true"

\* C24: when OptimizeOperation optimizes a SOURCE_COPY, the blocks of the
\* optimized operation's source and destination extents are the blocks of
\* the operation's at the positions where source and destination block
\* differ, in order, and merged into extents; identical source and
\* destination extents give two empty lists; sides of different total block
\* counts give false.
C24_OptimizedIsTheMovedBlocks ==
  OptimizeReturned =>
    LET src == ExpandExtents(optimize.operation.src_extents)
        dst == ExpandExtents(optimize.operation.dst_extents)
    IN  /\ optimize.ret = "true" =>
             /\ Len(src) = Len(dst)
             /\ optimize.optimized.type = "SOURCE_COPY"
             /\ ExpandExtents(optimize.optimized.src_extents) = DifferingBlocks(src, dst)
             /\ ExpandExtents(optimize.optimized.dst_extents) = DifferingBlocks(dst, src)
             /\ Merged(optimize.optimized.src_extents)
             /\ Merged(optimize.optimized.dst_extents)
        /\ (CanOptimize(optimize)
              /\ optimize.operation.src_extents = optimize.operation.dst_extents) =>
             /\ optimize.ret = "true"
             /\ optimize.optimized.src_extents = <<>>
             /\ optimize.optimized.dst_extents = <<>>
        /\ Len(src) # Len(dst) => optimize.ret = "false"

\* C24's case: [1, 3, 4, 7, 8] -> [2, 3, 4, 5, 6] becomes [1, 7, 8] -> [2, 5, 6].
C24_Witness ==
  /\ OptimizeReturned
  /\ optimize.operation.src_extents = <<Extent(1, 1), Extent(3, 2), Extent(7, 2)>>
  /\ optimize.operation.dst_extents = <<Extent(2, 5)>>
  /\ optimize.ret = "true"
  /\ optimize.optimized.src_extents = <<Extent(1, 1), Extent(7, 2)>>
  /\ optimize.optimized.dst_extents = <<Extent(2, 1), Extent(5, 2)>>

\* Moved runs that continue one another are merged into one extent, which
\* is then none of the operation's extents.
C24_WitnessMerged ==
  /\ OptimizeReturned
  /\ optimize.ret = "true"
  /\ Len(optimize.optimized.src_extents) < Len(optimize.operation.src_extents)
  /\ optimize.optimized.src_extents # <<>>
  /\ \E i \in 1..Len(optimize.optimized.src_extents) :
       optimize.optimized.src_extents[i] \notin Extents

\* Sides of different total block counts.
C24_WitnessDifferentCounts ==
  /\ OptimizeReturned
  /\ CanOptimize(optimize)
  /\ optimize.operation.src_extents = <<Extent(3, 2), Extent(7, 2)>>
  /\ optimize.operation.dst_extents = <<Extent(3, 2)>>
  /\ optimize.ret = "false"

\* C28: Finalize calls IncrementalFinalize until FECFinished() is true.  It
\* returns true only when FECFinished() holds, after as many successful
\* calls as there were slices; it returns false at the first call that
\* fails, which is then the last call; it makes no call when FECFinished()
\* is true on entry.
C28_FinalizeLoopsUntilFinished ==
  /\ verity.ret = "true" =>
       /\ FECFinished(verity)
       /\ Len(verity.calls) = verity.slices
       /\ \A i \in 1..Len(verity.calls) : verity.calls[i]
  /\ verity.ret = "false" =>
       /\ verity.pc = "done"
       /\ verity.calls # <<>>
       /\ ~verity.calls[Len(verity.calls)]
       /\ Len(verity.calls) = verity.fail_at
  /\ \A i \in 1..Len(verity.calls) :
       ~verity.calls[i] => i = Len(verity.calls) /\ verity.ret = "false"
  /\ verity.finished_on_entry => verity.calls = <<>> /\ verity.ret \in {"none", "true"}
  /\ (verity.pc = "done" /\ verity.slices > 0) => verity.calls # <<>>

\* C28's case: the third call fails with slices left; there is no fourth.
C28_Witness ==
  /\ verity.pc = "done"
  /\ verity.ret = "false"
  /\ verity.calls = <<TRUE, TRUE, FALSE>>
  /\ ~FECFinished(verity)

\* Finalize on a finished writer.
C28_WitnessFinishedOnEntry ==
  /\ verity.pc = "done"
  /\ verity.finished_on_entry
  /\ verity.ret = "true"
  /\ verity.calls = <<>>

\* C29: Finalize terminates: on a writer whose successful
\* IncrementalFinalize writes one of finitely many slices and whose
\* FECFinished() is true once all are written, Finalize eventually returns,
\* true or false.
C29_FinalizeTerminates == <>(verity.pc = "done")

\* C29's case: every call succeeds and Finalize returns after all slices.
C29_Witness ==
  /\ verity.pc = "done"
  /\ verity.fail_at = 0
  /\ verity.ret = "true"
  /\ Len(verity.calls) = 2 * MaxSlices

\* The invocations of the exit callback of pid so far.
CallbacksOf(pid) ==
  {i \in 1..Len(subprocess.callbacks) : subprocess.callbacks[i].pid = pid}

\* What of a Subprocess its callers and children can tell.
SubprocessState(sub) == <<sub.records, sub.children, sub.callbacks>>

\* C27: the exit callback of a process started with Exec or ExecFlags is
\* invoked at most once, whatever the order of child-exit notifications and
\* KillExec calls; when the child's exit is notified and KillExec was never
\* called for it, it is invoked exactly once, with the child's exit status
\* and all of its output; after the notification and after KillExec the
\* record of the process is gone.
C27_ExitCallbackOnce ==
  \A pid \in Pids :
    /\ Cardinality(CallbacksOf(pid)) <= 1
    /\ (pid \in subprocess.notified /\ pid \notin subprocess.kill_calls
          /\ subprocess.given[pid]) =>
         \E i \in 1..Len(subprocess.callbacks) :
           /\ CallbacksOf(pid) = {i}
           /\ subprocess.callbacks[i].return_code = subprocess.children[pid].status
           /\ subprocess.callbacks[i].output = subprocess.children[pid].written
    /\ pid \in subprocess.notified \cup subprocess.killed =>
         subprocess.records[pid] = NoRecord
    /\ subprocess.records[pid] # NoRecord =>
         subprocess.children[pid].state \in {"running", "exited"}

\* C27's case: a child that wrote output and exited with status 1 has had
\* its callback run, while another process was killed.
C27_Witness ==
  \E pid \in Pids, other \in Pids :
    /\ pid \in subprocess.notified
    /\ pid \notin subprocess.kill_calls
    /\ subprocess.given[pid]
    /\ subprocess.children[pid].status = 1
    /\ Len(subprocess.children[pid].written) = MaxOutput
    /\ Cardinality(CallbacksOf(pid)) = 1
    /\ other \in subprocess.killed
    /\ subprocess.given[other]

\* C30: once KillExec(pid) has returned for a pid that had a record, the
\* exit callback of pid has not been and is not invoked, the record is gone
\* and GetPipeFd(pid, fd) is -1, and a child-exit notification for pid has
\* no effect; KillExec for a pid without a record has no effect.
C30_KilledNeverCalledBack ==
  \A pid \in Pids :
    /\ pid \in subprocess.killed =>
         /\ CallbacksOf(pid) = {}
         /\ subprocess.records[pid] = NoRecord
         /\ \A fd \in {STDOUT_FILENO, 2} : GetPipeFd(subprocess, pid, fd) = -1
         /\ \A si_status \in ExitStatuses \cup {SIGKILL} :
              ChildExitedCallback(subprocess, pid, si_status) = subprocess
    /\ subprocess.records[pid] = NoRecord =>
         \A waited \in BOOLEAN :
           SubprocessState(KillExecOn(subprocess, pid, waited))
             = SubprocessState(subprocess)

\* C30's case: a process with a callback and unread output was killed, not
\* reaped in time, and its exit was notified later.
C30_Witness ==
  \E pid \in Pids :
    /\ pid \in subprocess.killed
    /\ pid \in subprocess.notified
    /\ subprocess.given[pid]
    /\ subprocess.children[pid].written # <<>>
    /\ subprocess.children[pid].state = "reaped"
    /\ CallbacksOf(pid) = {}

\* KillExec was called for a pid that never had a record.
C30_WitnessUnknown ==
  \E pid \in Pids :
    /\ pid \in subprocess.kill_calls
    /\ subprocess.children[pid].state = "none"
    /\ subprocess.next_pid = pid

\* C31: subprocess_records_ holds a record for a pid exactly when a
\* successful ExecFlags has returned the pid and neither ChildExitedCallback
\* nor KillExec has completed for it since; an ExecFlags whose launch fails
\* returns 0, adds no record and runs no callback.
C31_RecordsAreTheLiveProcesses ==
  /\ \A pid \in Pids :
       subprocess.records[pid] # NoRecord <=>
         /\ pid \in subprocess.returned
         /\ pid \notin subprocess.notified
         /\ pid \notin subprocess.kill_since
  /\ \A i \in 1..Len(subprocess.callbacks) :
       subprocess.callbacks[i].pid \in subprocess.returned
  /\ subprocess.next_pid \in Pids =>
       \A callback \in BOOLEAN :
         LET failed == ExecFlagsOn(subprocess, callback, FALSE)
         IN  /\ failed.exec_ret = 0
             /\ SubprocessState(failed) = SubprocessState(subprocess)

\* C31's case: a launch has failed after one process was started: the
\* one record is that process's, and no callback has run.
C31_Witness ==
  /\ subprocess.exec_ret = 0
  /\ subprocess.returned = {1}
  /\ subprocess.records[1] # NoRecord
  /\ subprocess.records[2] = NoRecord
  /\ subprocess.given[1]
  /\ subprocess.callbacks = <<>>

\* Records come and go: one process notified, one killed, none left.
C31_WitnessGone ==
  /\ subprocess.returned = Pids
  /\ subprocess.notified # {}
  /\ subprocess.kill_since # {}
  /\ subprocess.notified \cap subprocess.kill_since = {}
  /\ \A pid \in Pids : subprocess.records[pid] = NoRecord

\* C32: in ChildExitedCallback for a pid with a record, the rest of the
\* child's output is read and the pipe is watched no more before the exit
\* callback runs, so that the callback is given the whole output; the
\* process handle and its pipes are released after the callback has
\* returned, and the record is erased last.  For a pid without a record the
\* call does nothing.
C32_ReadThenCallbackThenErase ==
  /\ subprocess.pc \in {"callback", "returned"} =>
       LET pid == subprocess.running
           last == subprocess.callbacks[Len(subprocess.callbacks)]
       IN  /\ subprocess.events = UntilCallback \o <<"callback.Run">>
           /\ subprocess.children[pid].pipe = <<>>
           /\ last.pid = pid
           /\ last.output = subprocess.children[pid].written
           /\ last.return_code = subprocess.children[pid].status
           /\ subprocess.pc = "callback" =>
                /\ subprocess.records[pid] # NoRecord
                /\ ~subprocess.records[pid].stdout_controller
                /\ subprocess.records[pid].stdout_str = last.output
  /\ subprocess.pc \in {"loop", "undefined"} =>
       /\ subprocess.events \in {<<>>, UntilCallback \o AfterCallback,
                                 UntilCallback \o <<"callback.Run">> \o AfterCallback}
       /\ \A pid \in subprocess.notified : subprocess.records[pid] = NoRecord
  /\ \A pid \in Pids :
       subprocess.records[pid] = NoRecord =>
         \A si_status \in ExitStatuses \cup {SIGKILL} :
           SubprocessState(ChildExitedCallbackBegin(subprocess, pid, si_status))
             = SubprocessState(subprocess)

\* C32's case: the callback of a child that wrote MaxOutput bytes, none of
\* them read before its exit was notified, has run and returned, and the
\* record is erased.
C32_Witness ==
  /\ subprocess.pc = "loop"
  /\ subprocess.events = UntilCallback \o <<"callback.Run">> \o AfterCallback
  /\ subprocess.reentered = 0
  /\ Len(subprocess.callbacks) = 1
  /\ Len(subprocess.callbacks[1].output) = MaxOutput
  /\ subprocess.records[subprocess.callbacks[1].pid] = NoRecord
  /\ subprocess.kill_calls = {}

\* A notification for a pid whose record KillExec has erased.
C32_WitnessUnknown ==
  /\ subprocess.pc = "loop"
  /\ subprocess.events = <<>>
  /\ subprocess.notified \cap subprocess.killed # {}

\* C40: ChildExitedCallback does not access a record of subprocess_records_
\* that has been erased, and erases no record twice, also when the exit
\* callback it runs calls KillExec, for the same pid or another, before it
\* returns.
C40_NoAccessAfterErase ==
  /\ ~subprocess.accessed_erased
  /\ ~subprocess.erased_twice

\* A callback that calls KillExec for another pid does no harm.
C40_KillExecForAnotherPidIsSafe ==
  (subprocess.reentered # 0 /\ subprocess.pc = "returned"
     /\ subprocess.reentered # subprocess.running) =>
    subprocess.records[subprocess.running] # NoRecord

\* ReorderDataBlobs has returned true.
ReorderedPayload ==
  payload.pc \in {"reordered", "header", "manifest", "metadata_signature",
                  "blobs", "signature", "done", "aborted"}

\* C33: after ReorderDataBlobs every operation with a data blob has, at
\* data_offset in the reordered blob file, data_length bytes equal to the
\* bytes it referenced in the blob file before, and as data_sha256_hash the
\* SHA-256 of those bytes; an operation without data_offset is as it was,
\* and the reordered file has no bytes but those of the blobs.
C33_ReorderedBlobsAreTheReferencedBytes ==
  /\ payload.pc = "config" =>
       \A i \in 1..Len(AllOperations(payload.part_vec_)) :
         LET op == AllOperations(payload.part_vec_)[i]
         IN  op.has_data_offset =>
               SubSeq(payload.data_blobs, op.data_offset + 1,
                      op.data_offset + op.data_length)
                 = BlobBytes(op.id, op.data_length)
  /\ ReorderedPayload =>
       LET aops == AllOperations(payload.part_vec_)
       IN  /\ \A i \in 1..Len(aops) :
                IF aops[i].has_data_offset
                THEN /\ SubSeq(payload.ordered_blobs, aops[i].data_offset + 1,
                               aops[i].data_offset + aops[i].data_length)
                          = BlobBytes(aops[i].id, aops[i].data_length)
                     /\ aops[i].data_sha256_hash
                          = RawHashOfData(BlobBytes(aops[i].id, aops[i].data_length))
                ELSE aops[i] = [has_data_offset |-> FALSE, data_offset |-> 0,
                                data_length |-> 0, data_sha256_hash |-> <<>>,
                                id |-> aops[i].id]
           /\ Len(payload.ordered_blobs) = SumDataLength(aops, Len(aops))

\* C33's case: two partitions, the blobs of the second stored in front of
\* those of the first, and operations without a blob among them.
C33_Witness ==
  /\ payload.pc = "reordered"
  /\ Len(payload.part_vec_) = 2
  /\ payload.ordered_blobs # payload.data_blobs
  /\ Len(payload.ordered_blobs) = Len(payload.data_blobs)
  /\ \E i \in 1..Len(AllOperations(payload.part_vec_)) :
       ~AllOperations(payload.part_vec_)[i].has_data_offset

\* The value of the 4-byte metadata signature length field of the file.
MetadataSignatureSizeField ==
  LET at == Len(kDeltaMagic) + 16
  IN  ((payload.file[at + 1] * 256 + payload.file[at + 2]) * 256
         + payload.file[at + 3]) * 256 + payload.file[at + 4]

\* C34: in every payload file WritePayload has written, by the member or by
\* the static overload, the metadata signature length field of the header
\* is the number of metadata signature bytes between the manifest and the
\* first blob, and it is 0 exactly when no private key was given.
C34_SignatureLengthFieldIsWhatWasWritten ==
  (payload.pc = "done" /\ payload.signature_at > 0) =>
    /\ MetadataSignatureSizeField = payload.blobs_at - payload.metadata_signature_at
    /\ MetadataSignatureSizeField = 0 <=> ~payload.signed

\* C34 for the member WritePayload, which sets the signature fields of its
\* manifest when and only when it has a key.
C34_MemberWritesTheLengthItSigns ==
  (payload.pc = "done" /\ payload.signature_at > 0 /\ ~payload.static_call) =>
    /\ MetadataSignatureSizeField = payload.blobs_at - payload.metadata_signature_at
    /\ MetadataSignatureSizeField = 0 <=> ~payload.signed

\* The payload file has all its parts.
PayloadComplete ==
  /\ payload.signature_at > 0
  /\ payload.signature_at = payload.blobs_at + Len(payload.ordered_blobs)
  /\ Len(payload.file) = payload.signature_at + Len(payload.signature)
  /\ payload.signed => Len(payload.signature) = SignatureBlobLength

\* C35: the member WritePayload returns false whenever writing the payload
\* file fails; it returns true only for a payload written completely, and
\* does not read metadata_size_out when it was not set.
C35_WriteFailureIsReported ==
  /\ (payload.ret = "true" /\ ~payload.static_call) => PayloadComplete
  /\ ~payload.read_unset

\* The static WritePayload does return false when a step of it fails.
C35_StaticReportsWriteFailure ==
  (payload.static_call /\ payload.ret = "true") => PayloadComplete

\* C36: SubmitTransaction called with no transaction open (none was started,
\* or the last one was cancelled or submitted) returns false and leaves the
\* content of the store as it was.
C36_SubmitWithoutTransactionChangesNothing ==
  (call.op = "submit" /\ call.from = "none" /\ call.ret # "pending") =>
    /\ call.ret = "false"
    /\ Shown = call.pre

\* The part of C36 that holds: without a transaction SubmitTransaction
\* never returns true.
C36_SubmitWithoutTransactionFails ==
  (call.op = "submit" /\ call.from = "none" /\ call.ret # "pending") =>
    call.ret = "false"

\* C37: StartTransaction called while a transaction is open starts again
\* from the committed store: <root> is as it was, the writes of the earlier
\* transaction are gone, the reads show the committed content, and a
\* SubmitTransaction that follows commits the committed content with only
\* the writes made after the second StartTransaction.
C37_StartAgainRestartsFromCommitted ==
  /\ (call.op = "start" /\ call.ret = "true" /\ txn.restarted) =>
       /\ TreeContent(fs.root) = txn.pre
       /\ Shown = txn.pre
  /\ (call.op = "submit" /\ call.ret = "true" /\ call.from = "open" /\ txn.restarted)
       => Shown = txn.exp

\* C37 for the keys without a namespace, which the copy of
\* CreateTemporaryPrefs covers.
C37_StartAgainRestartsTopLevelKeys ==
  \A k \in Keys : DirName(k) = <<>> =>
    /\ (call.op = "start" /\ call.ret = "true" /\ txn.restarted) =>
         /\ TreeContent(fs.root) = txn.pre
         /\ Shown[k] = txn.pre[k]
    /\ (call.op = "submit" /\ call.ret = "true" /\ call.from = "open" /\ txn.restarted)
         => Shown[k] = txn.exp[k]

\* C38: the observers hear of committed changes only: while a transaction is
\* open no observer is invoked for a set or a delete made in it, and when the
\* transaction is cancelled no observer has been invoked for a write of it.
C38_ObserversHearCommittedChangesOnly ==
  /\ (txn.phase = "open" /\ call.op \in {"set", "delete"}) =>
       (pc # "notify" /\ notified = <<>>)
  /\ (call.op = "cancel" /\ call.from = "open") => txn.announced = {}

\* C39: SynchronousExecFlags returns in the end, whatever the child writes
\* to stdout and stderr and in which order, the child being one that exits
\* once its writes are taken from the pipes.
C39_SynchronousExecReturns == <>(subprocess.pc = "returned")

\* Where C39 fails: the parent is in a read of a pipe that is empty and
\* open, and the child is in a write to the other pipe, which is full.
SyncDeadlocked ==
  /\ subprocess.alive
  /\ subprocess.program # <<>>
  /\ subprocess.pipe[Head(subprocess.program)] = PipeCapacity
  /\ \/ /\ subprocess.pc = "read_stdout"
        /\ ~subprocess.stdout_closed
        /\ subprocess.pipe[STDOUT_FILENO] = 0
     \/ /\ subprocess.pc = "read_stderr"
        /\ ~subprocess.stderr_closed
        /\ subprocess.pipe[STDERR_FILENO] = 0

\* C39 as a property of states: parent and child are never both blocked.
C39_NeverBothBlocked == ~SyncDeadlocked

\* What does hold: when SynchronousExecFlags returns true, the child has
\* exited and all it wrote has been read.
C39_ReturnsAfterAllOutputRead ==
  (subprocess.pc = "returned" /\ subprocess.ret = "true") =>
    /\ ~subprocess.alive
    /\ subprocess.stdout_str =
         Cardinality({i \in 1..Len(subprocess.script) : subprocess.script[i] = STDOUT_FILENO})
    /\ subprocess.stderr_str =
         Cardinality({i \in 1..Len(subprocess.script) : subprocess.script[i] = STDERR_FILENO})

====
